---- MODULE Spec2Model ----
(***************************************************************************)
(* Model of the backtesting cutoff mechanism of sdk_rfi: the cutoff        *)
(* resolver (_utils.py), the three temporal filters and the list/get       *)
(* handlers of resources/questions.py, prediction_sets.py and comments.py. *)
(*                                                                         *)
(* Spec       : a caller invoking _resolve_cutoff_date and the list/get    *)
(*              handlers against an arbitrary server.                      *)
(* SpecFilter : the three temporal filters applied to arbitrary entity     *)
(*              sequences and cutoff strings.                              *)
(* SpecRuns   : the filters on sequences with repeated entities.           *)
(* SpecTransport : construction of the clients and the handlers against    *)
(*              every answer of the transport (_base_client.py,            *)
(*              _exceptions.py).                                           *)
(* SpecCalls  : two callers sharing a client, each call split at its       *)
(*              transport call, while CUTOFF_DATE is changed.              *)
(***************************************************************************)
EXTENDS Integers, Sequences, FiniteSets, TLC

VARIABLES
    env,     \* os.environ.get("CUTOFF_DATE"): None when unset, else a string
    today,   \* datetime.now().strftime("%Y-%m-%d") evaluated when the resource modules are imported
    op,      \* name of the last operation that ran ("none" before the first)
    args,    \* the arguments the caller passed to it
    query,   \* the params dict handed to the transport (_client.get), NoQuery if none was sent
    data,    \* the decoded JSON body the transport returned
    result,  \* [kind |-> "return", value |-> v] or [kind |-> "raise", exc |-> e]
    http,    \* what the last operation did with httpx: the clients it created, the answers to its posts
    calls    \* the calls in flight on one client, by caller: position, locals, outcome,
             \* and whether CUTOFF_DATE was changed since the call began (moved)

vars == <<env, today, op, args, query, data, result, http, calls>>

----------------------------------------------------------------------------
(* Bounds *)

\* calendar days the model draws dates and timestamps from
MaxDay == 2
\* longest entity sequence handed to a temporal filter
MaxLen == 2
\* longest record sequence a server response carries
MaxRecords == 2
MaxEnvelope == 1
MaxPage == 2

----------------------------------------------------------------------------
(* Values *)

\* Python's None, for string-typed optionals
None == "None"
\* Python's None, where an object is expected
NoneObj == [none |-> TRUE]
\* an argument the caller did not pass (the signature's default applies)
NotPassed == "<not passed>"
\* no transport call was made
NoQuery == [nothing |-> TRUE]
NoData == <<>>

\* consecutive calendar days; a day number indexes this sequence
Calendar == <<"2024-12-30", "2024-12-31", "2025-01-01", "2025-01-02", "2025-01-03">>
Days == 1..MaxDay
Dates == {Calendar[d] : d \in Days}

\* datetime values: day (index into Calendar), second of the day, microsecond,
\* tzinfo (None when naive).  NoneDT stands for a datetime field that is None.
NoneDT == [day |-> 0, sec |-> 0, us |-> 0, tz |-> None]

\* wall-clock readings a timestamp of the wire can carry
Readings ==
    { [sec |-> 86399, us |-> 0,      tz |-> None],       \* 23:59:59 naive
      [sec |-> 86399, us |-> 500000, tz |-> "+00:00"],   \* 23:59:59.5Z
      [sec |-> 1800,  us |-> 0,      tz |-> "+01:00"],   \* 00:30:00+01:00
      [sec |-> 84600, us |-> 0,      tz |-> "-01:00"] }  \* 23:30:00-01:00
Noon == [sec |-> 43200, us |-> 0, tz |-> "+00:00"]       \* 12:00:00Z

At(d, r) == [day |-> d, sec |-> r.sec, us |-> r.us, tz |-> r.tz]
Datetimes == {At(d, r) : d \in Days, r \in Readings}
NoonDatetimes == {At(d, Noon) : d \in Days}

----------------------------------------------------------------------------
(* datetime *)

\* datetime.strptime(s, "%Y-%m-%d"): midnight of the day, or ValueError (day -1)
ParseFailed == [day |-> -1, sec |-> 0, us |-> 0, tz |-> None]
strptime(s) ==
    IF \E d \in 1..Len(Calendar) : Calendar[d] = s
    THEN [day |-> CHOOSE d \in 1..Len(Calendar) : Calendar[d] = s,
          sec |-> 0, us |-> 0, tz |-> None]
    ELSE ParseFailed

\* .replace(hour=23, minute=59, second=59): microsecond and tzinfo are kept
replace_235959(dt) == [dt EXCEPT !.sec = 86399]

\* .replace(tzinfo=None): the offset is dropped, the wall-clock fields are kept
replace_tzinfo_None(dt) == [dt EXCEPT !.tz = None]

\* the mutant of datetime_le: microseconds ignored
datetime_le_Seconds(a, b) ==
    \/ a.day < b.day
    \/ a.day = b.day /\ a.sec <= b.sec

\* a <= b for naive datetimes
datetime_le(a, b) ==
    \/ a.day < b.day
    \/ a.day = b.day /\ a.sec < b.sec
    \/ a.day = b.day /\ a.sec = b.sec /\ a.us <= b.us

----------------------------------------------------------------------------
(* _utils.py *)

\* Python truthiness of an optional string
Truthy(s) == s # None /\ s # ""

\* the mutant of _resolve_cutoff_date: the parameter is tried first
resolve_ParamFirst(environ, cutoff_date) ==
    IF Truthy(cutoff_date) THEN cutoff_date
    ELSE IF Truthy(environ) THEN environ
    ELSE None

\* the mutant of _resolve_cutoff_date: falls back to today's date
resolve_TodayFallback(environ, cutoff_date) ==
    IF Truthy(environ) THEN environ
    ELSE IF Truthy(cutoff_date) THEN cutoff_date
    ELSE Calendar[1]

\* _resolve_cutoff_date(cutoff_date) with os.environ.get("CUTOFF_DATE") = environ
_resolve_cutoff_date(environ, cutoff_date) ==
    IF Truthy(environ) THEN environ
    ELSE IF Truthy(cutoff_date) THEN cutoff_date
    ELSE None

\* os.environ.get("CUTOFF_DATE") after _resolve_cutoff_date(cutoff_date) ran: the
\* function reads the variable and assigns nothing
_resolve_cutoff_date_environ_Pin(environ, cutoff_date) ==
    IF ~Truthy(environ) /\ Truthy(cutoff_date) THEN cutoff_date ELSE environ

_resolve_cutoff_date_environ(environ, cutoff_date) == environ

----------------------------------------------------------------------------
(* results of a call *)

Return(v) == [kind |-> "return", value |-> v]
Raise(e) == [kind |-> "raise", exc |-> e]

----------------------------------------------------------------------------
(* resources/questions.py, prediction_sets.py, comments.py: temporal filters *)

\* the mutant of question_passes: a question without published_at and created_at is dropped
question_passes_DropUndated(q, cutoff_dt) ==
    IF q.published_at # NoneDT
    THEN datetime_le(replace_tzinfo_None(q.published_at), replace_235959(cutoff_dt))
    ELSE IF q.created_at # NoneDT
         THEN datetime_le(replace_tzinfo_None(q.created_at), replace_235959(cutoff_dt))
         ELSE FALSE

\* the mutant of question_passes: created_at is consulted before published_at
question_passes_CreatedFirst(q, cutoff_dt) ==
    IF q.created_at # NoneDT
    THEN datetime_le(replace_tzinfo_None(q.created_at), replace_235959(cutoff_dt))
    ELSE IF q.published_at # NoneDT
         THEN datetime_le(replace_tzinfo_None(q.published_at), replace_235959(cutoff_dt))
         ELSE TRUE

\* the body of the loop of _filter_questions_by_cutoff: TRUE iff q is appended
question_passes(q, cutoff_dt) ==
    IF q.published_at # NoneDT
    THEN datetime_le(replace_tzinfo_None(q.published_at), replace_235959(cutoff_dt))
    ELSE IF q.created_at # NoneDT
         THEN datetime_le(replace_tzinfo_None(q.created_at), replace_235959(cutoff_dt))
         ELSE TRUE

_filter_questions_by_cutoff(questions, cutoff_date) ==
    LET cutoff_dt == strptime(cutoff_date)
    IN  IF cutoff_dt = ParseFailed THEN Raise("ValueError")
        ELSE Return(SelectSeq(questions, LAMBDA q : question_passes(q, cutoff_dt)))

\* the mutant of prediction_set_passes: keeps what was created at or after the cutoff
prediction_set_passes_After(ps, cutoff_dt) ==
    IF ps.created_at # NoneDT
    THEN datetime_le(cutoff_dt, replace_tzinfo_None(ps.created_at))
    ELSE TRUE

\* the body of the loop of _filter_prediction_sets_by_cutoff; cutoff_dt is already at 23:59:59
prediction_set_passes(ps, cutoff_dt) ==
    IF ps.created_at # NoneDT
    THEN datetime_le(replace_tzinfo_None(ps.created_at), cutoff_dt)
    ELSE TRUE

\* the mutant of _filter_prediction_sets_by_cutoff: the kept entities come out last first
_filter_prediction_sets_by_cutoff_Reversed(prediction_sets, cutoff_date) ==
    LET parsed == strptime(cutoff_date)
        kept == SelectSeq(prediction_sets,
                          LAMBDA ps : prediction_set_passes(ps, replace_235959(parsed)))
    IN  IF parsed = ParseFailed THEN Raise("ValueError")
        ELSE Return([i \in 1..Len(kept) |-> kept[Len(kept) + 1 - i]])

_filter_prediction_sets_by_cutoff(prediction_sets, cutoff_date) ==
    LET parsed == strptime(cutoff_date)
    IN  IF parsed = ParseFailed THEN Raise("ValueError")
        ELSE Return(SelectSeq(prediction_sets,
                              LAMBDA ps : prediction_set_passes(ps, replace_235959(parsed))))

\* the body of the loop of _filter_comments_by_cutoff; cutoff_dt is already at 23:59:59
comment_passes(c, cutoff_dt) ==
    IF c.created_at # NoneDT
    THEN datetime_le(replace_tzinfo_None(c.created_at), cutoff_dt)
    ELSE TRUE

\* the mutant of _filter_comments_by_cutoff: the first kept entity is left out
_filter_comments_by_cutoff_DropHead(comments, cutoff_date) ==
    LET parsed == strptime(cutoff_date)
        kept == SelectSeq(comments, LAMBDA c : comment_passes(c, replace_235959(parsed)))
    IN  IF parsed = ParseFailed THEN Raise("ValueError")
        ELSE Return(IF kept = <<>> THEN kept ELSE Tail(kept))

_filter_comments_by_cutoff(comments, cutoff_date) ==
    LET parsed == strptime(cutoff_date)
    IN  IF parsed = ParseFailed THEN Raise("ValueError")
        ELSE Return(SelectSeq(comments,
                              LAMBDA c : comment_passes(c, replace_235959(parsed))))

----------------------------------------------------------------------------
(* types/*.py: decoding a raw record *)

\* what model_validate raises on a record without the required field id
ValidationError == [error |-> "pydantic.ValidationError"]

\* Question.model_validate: a missing or null timestamp decodes to None, unknown
\* keys are dropped, id is required
Question_model_validate(raw) ==
    IF "id" \in DOMAIN raw
    THEN [id |-> raw.id, published_at |-> raw.published_at, created_at |-> raw.created_at]
    ELSE ValidationError

\* PredictionSet.model_validate
PredictionSet_model_validate(raw) ==
    IF "id" \in DOMAIN raw THEN [id |-> raw.id, created_at |-> raw.created_at]
    ELSE ValidationError

\* Comment.model_validate
Comment_model_validate(raw) ==
    IF "id" \in DOMAIN raw THEN [id |-> raw.id, created_at |-> raw.created_at]
    ELSE ValidationError

----------------------------------------------------------------------------
(* The decoded JSON body the transport hands back.  A value carries its type,
   as isinstance sees it. *)

JList(s) == [t |-> "list", list |-> s]
JDict(d) == [t |-> "dict", dict |-> d]
JStr(s) == [t |-> "str", str |-> s]
JBool(b) == [t |-> "bool", bool |-> b]
JNull == [t |-> "null"]

isinstance_list(x) == x.t = "list"
isinstance_dict(x) == x.t = "dict"

\* dict.get(key, default)
dict_get(d, key, default) == IF key \in DOMAIN d.dict THEN d.dict[key] ELSE default

\* bool(x) of a JSON value
bool(x) ==
    CASE x.t = "null" -> FALSE
      [] x.t = "bool" -> x.bool
      [] x.t = "str" -> x.str # ""
      [] x.t = "list" -> x.list # <<>>
      [] x.t = "dict" -> DOMAIN x.dict # {}

----------------------------------------------------------------------------
(* _base_client.py: the query that goes out.  Argument values are written as
   Python prints them: None, 0, 2, False, closed. *)

NoParams == [k \in {} |-> None]

\* the statements "if X is not None: params[X] = X" for the parameters in names;
\* a.filters holds the parameters the caller passed a value for
Passed(a, names) == [k \in DOMAIN a.filters \cap names |-> a.filters[k]]

\* BaseClient._build_params
BaseClient_build_params(params) ==
    IF DOMAIN params # {}
    THEN [k \in {j \in DOMAIN params : params[j] # None} |-> params[k]]
    ELSE NoParams

\* the mutant of AsyncBaseClient._build_params: base_params is shared by the
\* calls of the client, so a call starts from the params of a call in flight
AsyncBaseClient_build_params_Shared(params) ==
    LET inflight == {c \in DOMAIN calls : calls[c].pc # "idle"}
        base_params == IF inflight = {} THEN NoParams
                       ELSE calls[CHOOSE c \in inflight : TRUE].query.params
    IN  [k \in {j \in DOMAIN params : params[j] # None} |-> params[k]] @@ base_params

\* AsyncBaseClient._build_params
AsyncBaseClient_build_params(params) ==
    IF DOMAIN params # {}
    THEN [k \in {j \in DOMAIN params : params[j] # None} |-> params[k]]
    ELSE NoParams

\* page or 1
page_or_1(page) == IF page = None \/ page = "0" THEN "1" ELSE page

\* the length from which a bare page counts as full
DefaultPageSize == 20

----------------------------------------------------------------------------
(* _exceptions.py: what "raise cls(...)" raises, given the number of positional
   arguments and the names of the keyword arguments of the call.  A call that
   does not fit the signature of __init__ raises TypeError instead. *)

\* APIStatusError.__init__(self, message, *, response, body=None), inherited by
\* the seven status errors
APIStatusError_init(cls, positional, keywords) ==
    IF positional = 1 /\ "response" \in keywords /\ keywords \subseteq {"response", "body"}
    THEN cls ELSE "TypeError"

\* APIConnectionError.__init__(self, *, message="Connection error.", request)
APIConnectionError_init(positional, keywords) ==
    IF positional = 0 /\ "request" \in keywords /\ keywords \subseteq {"message", "request"}
    THEN "APIConnectionError" ELSE "TypeError"

\* APITimeoutError.__init__(self, request)
APITimeoutError_init(positional, keywords) ==
    IF (positional = 1 /\ keywords = {}) \/ (positional = 0 /\ keywords = {"request"})
    THEN "APITimeoutError" ELSE "TypeError"

\* SDKError(message): Exception takes any positional arguments
SDKError_init(positional, keywords) == IF keywords = {} THEN "SDKError" ELSE "TypeError"

----------------------------------------------------------------------------
(* _base_client.py: the transport.  post: what self._http.post did. *)

\* the outcomes of self._http.post(...)
TimeoutException == [kind |-> "httpx.TimeoutException"]
ConnectError == [kind |-> "httpx.ConnectError"]
ReadError == [kind |-> "httpx.ReadError"]
\* the enclave answered with an HTTP status and a body that is not a ServiceResponse
EnclaveAnswer(status) == [kind |-> "enclave", status |-> status, parsed |-> FALSE]
\* the enclave answered 200 with ServiceResponse.fail(code, message)
Fail(code) == [kind |-> "enclave", status |-> 200, parsed |-> TRUE, success |-> FALSE, code |-> code]
\* the enclave answered 200 with ServiceResponse.ok(HttpResponse(status, body))
Ok(status, body) ==
    [kind |-> "enclave", status |-> 200, parsed |-> TRUE, success |-> TRUE,
     response |-> [status |-> status, body |-> body]]

\* the table of the status errors by HTTP status
STATUS_CODE_TO_EXCEPTION ==
    (400 :> "BadRequestError") @@ (401 :> "AuthenticationError")
    @@ (403 :> "PermissionDeniedError") @@ (404 :> "NotFoundError")
    @@ (409 :> "ConflictError") @@ (429 :> "RateLimitError")

\* _raise_http_error(status_code, body)
_raise_http_error(status_code, body) ==
    LET exc_class == IF status_code \in DOMAIN STATUS_CODE_TO_EXCEPTION
                     THEN STATUS_CODE_TO_EXCEPTION[status_code]
                     ELSE "InternalServerError"
    IN  Raise(APIStatusError_init(exc_class, 1, {"status_code", "body"}))

\* _raise_dispatch_error(code, message)
_raise_dispatch_error(code) ==
    IF code = "RATE_LIMITED" THEN Raise(APIStatusError_init("RateLimitError", 1, {"status_code"}))
    ELSE IF code = "DOWNSTREAM_TIMEOUT" THEN Raise(APITimeoutError_init(1, {}))
    ELSE IF code \in {"DOWNSTREAM_UNREACHABLE", "ENCLAVE_UNAVAILABLE"}
    THEN Raise(APIConnectionError_init(1, {}))
    ELSE IF code = "AUTH_FAILED"
    THEN Raise(APIStatusError_init("AuthenticationError", 1, {"status_code"}))
    ELSE IF code = "SERVICE_NOT_FOUND" THEN Raise(SDKError_init(1, {}))
    ELSE Raise(SDKError_init(1, {}))

\* BaseClient._parse_enclave_response(resp)
_parse_enclave_response(resp) ==
    IF resp.status = 401
    THEN Raise(APIStatusError_init("AuthenticationError", 1, {"status_code"}))
    ELSE IF resp.status >= 500
    THEN Raise(APIStatusError_init("InternalServerError", 1, {"status_code"}))
    ELSE IF resp.parsed THEN Return(resp)
    ELSE Raise(SDKError_init(1, {}))

\* BaseClient._dispatch(request, client_id)
BaseClient_dispatch(post) ==
    IF post = TimeoutException THEN Raise(APITimeoutError_init(1, {}))
    ELSE IF post = ConnectError THEN Raise(APIConnectionError_init(1, {}))
    ELSE IF post.kind # "enclave" THEN Raise(post.kind)
    ELSE _parse_enclave_response(post)

\* BaseClient._handle_response(sr)
BaseClient_handle_response(sr) ==
    IF ~sr.success THEN _raise_dispatch_error(sr.code)
    ELSE IF sr.response.status >= 400
    THEN _raise_http_error(sr.response.status, sr.response.body)
    ELSE Return(sr.response.body)

\* the posts one BaseClient._dispatch makes: a single self._http.post, in no loop;
\* network[i] is what the i-th post of the call would be answered with
BaseClient_dispatch_posts_Retry(network) ==
    IF Len(network) > 1 /\ network[1].kind # "enclave" THEN <<network[1], network[2]>>
    ELSE <<network[1]>>

BaseClient_dispatch_posts(network) == <<network[1]>>

\* BaseClient.get(path, params=params): _request, after the endpoint is built
BaseClient_get(network) ==
    LET posts == BaseClient_dispatch_posts(network)
        service_resp == BaseClient_dispatch(posts[Len(posts)])
    IN  IF service_resp.kind = "raise" THEN service_resp
        ELSE BaseClient_handle_response(service_resp.value)

\* the mutant of AsyncBaseClient._dispatch: a timeout is not caught
AsyncBaseClient_dispatch_TimeoutUncaught(post) ==
    IF post = ConnectError THEN Raise(APIConnectionError_init(1, {}))
    ELSE IF post.kind # "enclave" THEN Raise(post.kind)
    ELSE _parse_enclave_response(post)

\* AsyncBaseClient._dispatch(request, client_id)
AsyncBaseClient_dispatch(post) ==
    IF post = TimeoutException THEN Raise(APITimeoutError_init(1, {}))
    ELSE IF post = ConnectError THEN Raise(APIConnectionError_init(1, {}))
    ELSE IF post.kind # "enclave" THEN Raise(post.kind)
    ELSE _parse_enclave_response(post)

\* AsyncBaseClient._handle_response(sr)
AsyncBaseClient_handle_response(sr) ==
    IF ~sr.success THEN _raise_dispatch_error(sr.code)
    ELSE IF sr.response.status >= 400
    THEN _raise_http_error(sr.response.status, sr.response.body)
    ELSE Return(sr.response.body)

\* the posts one AsyncBaseClient._dispatch makes
AsyncBaseClient_dispatch_posts(network) == <<network[1]>>

\* AsyncBaseClient.get(path, params=params)
AsyncBaseClient_get(network) ==
    LET posts == AsyncBaseClient_dispatch_posts(network)
        service_resp == AsyncBaseClient_dispatch(posts[Len(posts)])
    IN  IF service_resp.kind = "raise" THEN service_resp
        ELSE AsyncBaseClient_handle_response(service_resp.value)

----------------------------------------------------------------------------
(* _base_client.py, _client.py: construction.  environ: the values of
   os.environ.get for ENCLAVE_URL and MIDDLEWARE_AUTH_SECRET, None when unset *)

\* base64.b64decode(secret_b64) raises binascii.Error on incorrect padding
b64decode(secret_b64) ==
    IF secret_b64 = "c2VjcmV0" THEN Return("secret") ELSE Raise("binascii.Error: Incorrect padding")

\* the mutant of _read_enclave_config: only an unset variable is missing
_read_enclave_config_UnsetOnly(environ) ==
    LET enclave_url == environ.ENCLAVE_URL
        secret_b64 == IF environ.MIDDLEWARE_AUTH_SECRET = None THEN ""
                      ELSE environ.MIDDLEWARE_AUTH_SECRET
    IN  IF enclave_url = None
        THEN Raise("RuntimeError: ENCLAVE_URL environment variable is required.")
        ELSE IF environ.MIDDLEWARE_AUTH_SECRET = None
        THEN Raise("RuntimeError: MIDDLEWARE_AUTH_SECRET environment variable is required.")
        ELSE IF secret_b64 = "" THEN Return([dispatch_url |-> enclave_url \o "/dispatch",
                                             auth_secret |-> ""])
        ELSE IF b64decode(secret_b64).kind = "raise" THEN b64decode(secret_b64)
        ELSE Return([dispatch_url |-> enclave_url \o "/dispatch",
                     auth_secret |-> b64decode(secret_b64).value])

\* _read_enclave_config()
_read_enclave_config(environ) ==
    LET enclave_url == environ.ENCLAVE_URL
        secret_b64 == IF environ.MIDDLEWARE_AUTH_SECRET = None THEN ""
                      ELSE environ.MIDDLEWARE_AUTH_SECRET
    IN  IF ~Truthy(enclave_url)
        THEN Raise("RuntimeError: ENCLAVE_URL environment variable is required.")
        ELSE IF ~Truthy(secret_b64)
        THEN Raise("RuntimeError: MIDDLEWARE_AUTH_SECRET environment variable is required.")
        ELSE IF b64decode(secret_b64).kind = "raise" THEN b64decode(secret_b64)
        ELSE Return([dispatch_url |-> enclave_url \o "/dispatch",
                     auth_secret |-> b64decode(secret_b64).value])

\* BaseClient.__init__: the configuration is read before httpx.Client is created
BaseClient_init(environ) ==
    LET config == _read_enclave_config(environ)
    IN  IF config.kind = "raise" THEN [result |-> config, http |-> <<>>]
        ELSE [result |-> Return([config |-> config.value, _http |-> [kind |-> "httpx.Client"]]),
              http |-> <<[kind |-> "httpx.Client"]>>]

\* AsyncBaseClient.__init__
AsyncBaseClient_init(environ) ==
    LET config == _read_enclave_config(environ)
    IN  IF config.kind = "raise" THEN [result |-> config, http |-> <<>>]
        ELSE [result |-> Return([config |-> config.value, _http |-> [kind |-> "httpx.AsyncClient"]]),
              http |-> <<[kind |-> "httpx.AsyncClient"]>>]

\* Client.__init__: self._base_client = BaseClient(...)
Client_init(environ) ==
    LET base == BaseClient_init(environ)
    IN  IF base.result.kind = "raise" THEN base
        ELSE [result |-> Return([_base_client |-> base.result.value]), http |-> base.http]

\* AsyncClient.__init__: self._base_client = AsyncBaseClient(...)
AsyncClient_init(environ) ==
    LET base == AsyncBaseClient_init(environ)
    IN  IF base.result.kind = "raise" THEN base
        ELSE [result |-> Return([_base_client |-> base.result.value]), http |-> base.http]

----------------------------------------------------------------------------
(* resources/questions.py: handlers.  a: the caller's arguments, td: the
   default of cutoff_date (the import date), body: the transport's answer *)

\* Questions.list up to the transport call: the params dict
Questions_list_params_NoPage(a, td) ==
    LET cutoff_date == IF a.cutoff_date = NotPassed THEN td ELSE a.cutoff_date
    IN  Passed(a, {"status", "tags", "challenges", "sort", "filter", "ids"})
        @@ (IF a.created_before # None
            THEN "created_before" :> a.created_before
            ELSE "created_before" :> (cutoff_date \o "T23:59:59"))
        @@ Passed(a, {"created_after", "updated_before", "updated_after", "include_tag_ids"})

Questions_list_params(a, td) ==
    LET cutoff_date == IF a.cutoff_date = NotPassed THEN td ELSE a.cutoff_date
    IN  Passed(a, {"status", "tags", "challenges", "sort", "filter", "ids"})
        @@ (IF a.page # None THEN "page" :> a.page ELSE NoParams)
        @@ (IF a.created_before # None
            THEN "created_before" :> a.created_before
            ELSE "created_before" :> (cutoff_date \o "T23:59:59"))
        @@ Passed(a, {"created_after", "updated_before", "updated_after", "include_tag_ids"})

\* Questions.list: the entities and has_more read off the body
Questions_list_parse_OnlyResourceKey(body) ==
    IF isinstance_list(body)
    THEN LET questions == [i \in DOMAIN body.list |-> Question_model_validate(body.list[i])]
         IN  [questions |-> questions, has_more |-> Len(questions) >= DefaultPageSize]
    ELSE IF isinstance_dict(body)
    THEN LET items == dict_get(body, "questions", JList(<<>>))
         IN  [questions |-> IF isinstance_list(items)
                            THEN [i \in DOMAIN items.list |-> Question_model_validate(items.list[i])]
                            ELSE <<>>,
              has_more |-> bool(dict_get(body, "next", JNull))
                            \/ bool(dict_get(body, "has_more", JNull))]
    ELSE [questions |-> <<>>, has_more |-> FALSE]

Questions_list_parse(body) ==
    IF isinstance_list(body)
    THEN LET questions == [i \in DOMAIN body.list |-> Question_model_validate(body.list[i])]
         IN  [questions |-> questions, has_more |-> Len(questions) >= DefaultPageSize]
    ELSE IF isinstance_dict(body)
    THEN LET items == dict_get(body, "questions",
                               dict_get(body, "results", dict_get(body, "data", JList(<<>>))))
         IN  [questions |-> IF isinstance_list(items)
                            THEN [i \in DOMAIN items.list |-> Question_model_validate(items.list[i])]
                            ELSE <<>>,
              has_more |-> bool(dict_get(body, "next", JNull))
                            \/ bool(dict_get(body, "has_more", JNull))]
    ELSE [questions |-> <<>>, has_more |-> FALSE]

\* Questions.list after the transport call: decode, filter, package
Questions_list_return(a, td, body) ==
    LET cutoff_date == IF a.cutoff_date = NotPassed THEN td ELSE a.cutoff_date
        parsed == Questions_list_parse(body)
        filtered == _filter_questions_by_cutoff(parsed.questions, cutoff_date)
    IN  IF \E i \in DOMAIN parsed.questions : parsed.questions[i] = ValidationError
        THEN Raise(ValidationError.error)
        ELSE IF filtered.kind = "raise" THEN filtered
        ELSE Return([questions |-> filtered.value,
                     page |-> page_or_1(a.page),
                     has_more |-> parsed.has_more])

\* Questions.get: the path fetched
Questions_get_path(a) == "/api/v1/questions/" \o ToString(a.question_id)

\* Questions.get after the transport call
Questions_get_return_FilterToday(a, td, body) ==
    LET question == Question_model_validate(body)
        filtered == _filter_questions_by_cutoff(<<question>>, td)
    IN  IF question = ValidationError THEN Raise(ValidationError.error)
        ELSE IF filtered.kind = "raise" THEN filtered
        ELSE IF filtered.value = <<>> THEN Return(NoneObj) ELSE Return(question)

Questions_get_return(a, td, body) ==
    LET question == Question_model_validate(body)
    IN  IF question = ValidationError THEN Raise(ValidationError.error)
        ELSE Return(question)

AsyncQuestions_list_params(a, td) ==
    LET cutoff_date == IF a.cutoff_date = NotPassed THEN td ELSE a.cutoff_date
    IN  Passed(a, {"status", "tags", "challenges", "sort", "filter", "ids"})
        @@ (IF a.page # None THEN "page" :> a.page ELSE NoParams)
        @@ (IF a.created_before # None
            THEN "created_before" :> a.created_before
            ELSE "created_before" :> (cutoff_date \o "T23:59:59"))
        @@ Passed(a, {"created_after", "updated_before", "updated_after", "include_tag_ids"})

AsyncQuestions_list_parse(body) ==
    IF isinstance_list(body)
    THEN LET questions == [i \in DOMAIN body.list |-> Question_model_validate(body.list[i])]
         IN  [questions |-> questions, has_more |-> Len(questions) >= DefaultPageSize]
    ELSE IF isinstance_dict(body)
    THEN LET items == dict_get(body, "questions",
                               dict_get(body, "results", dict_get(body, "data", JList(<<>>))))
         IN  [questions |-> IF isinstance_list(items)
                            THEN [i \in DOMAIN items.list |-> Question_model_validate(items.list[i])]
                            ELSE <<>>,
              has_more |-> bool(dict_get(body, "next", JNull))
                            \/ bool(dict_get(body, "has_more", JNull))]
    ELSE [questions |-> <<>>, has_more |-> FALSE]

AsyncQuestions_list_return(a, td, body) ==
    LET cutoff_date == IF a.cutoff_date = NotPassed THEN td ELSE a.cutoff_date
        parsed == AsyncQuestions_list_parse(body)
        filtered == _filter_questions_by_cutoff(parsed.questions, cutoff_date)
    IN  IF \E i \in DOMAIN parsed.questions : parsed.questions[i] = ValidationError
        THEN Raise(ValidationError.error)
        ELSE IF filtered.kind = "raise" THEN filtered
        ELSE Return([questions |-> filtered.value,
                     page |-> page_or_1(a.page),
                     has_more |-> parsed.has_more])

AsyncQuestions_get_path(a) == "/api/v1/questions/" \o ToString(a.question_id)

AsyncQuestions_get_return(a, td, body) ==
    LET question == Question_model_validate(body)
    IN  IF question = ValidationError THEN Raise(ValidationError.error)
        ELSE Return(question)

----------------------------------------------------------------------------
(* resources/prediction_sets.py: handlers.  environ: CUTOFF_DATE *)

PredictionSets_list_params(a, environ) ==
    LET cutoff_date ==
            _resolve_cutoff_date(environ, IF a.cutoff_date = NotPassed THEN None ELSE a.cutoff_date)
    IN  Passed(a, {"question_id", "membership_id", "filter"})
        @@ (IF a.page # None THEN "page" :> a.page ELSE NoParams)
        @@ (IF a.created_before # None
            THEN "created_before" :> a.created_before
            ELSE IF Truthy(cutoff_date)
                 THEN "created_before" :> (cutoff_date \o "T23:59:59")
                 ELSE NoParams)
        @@ Passed(a, {"created_after", "updated_before", "updated_after"})

PredictionSets_list_parse_Strict(body) ==
    IF isinstance_list(body)
    THEN LET prediction_sets ==
                 [i \in DOMAIN body.list |-> PredictionSet_model_validate(body.list[i])]
         IN  [prediction_sets |-> prediction_sets,
              has_more |-> Len(prediction_sets) > DefaultPageSize]
    ELSE IF isinstance_dict(body)
    THEN LET items == dict_get(body, "prediction_sets",
                               dict_get(body, "results", dict_get(body, "data", JList(<<>>))))
         IN  [prediction_sets |->
                  IF isinstance_list(items)
                  THEN [i \in DOMAIN items.list |-> PredictionSet_model_validate(items.list[i])]
                  ELSE <<>>,
              has_more |-> bool(dict_get(body, "next", JNull))
                            \/ bool(dict_get(body, "has_more", JNull))]
    ELSE [prediction_sets |-> <<>>, has_more |-> FALSE]

PredictionSets_list_parse(body) ==
    IF isinstance_list(body)
    THEN LET prediction_sets ==
                 [i \in DOMAIN body.list |-> PredictionSet_model_validate(body.list[i])]
         IN  [prediction_sets |-> prediction_sets,
              has_more |-> Len(prediction_sets) >= DefaultPageSize]
    ELSE IF isinstance_dict(body)
    THEN LET items == dict_get(body, "prediction_sets",
                               dict_get(body, "results", dict_get(body, "data", JList(<<>>))))
         IN  [prediction_sets |->
                  IF isinstance_list(items)
                  THEN [i \in DOMAIN items.list |-> PredictionSet_model_validate(items.list[i])]
                  ELSE <<>>,
              has_more |-> bool(dict_get(body, "next", JNull))
                            \/ bool(dict_get(body, "has_more", JNull))]
    ELSE [prediction_sets |-> <<>>, has_more |-> FALSE]

PredictionSets_list_return(a, environ, body) ==
    LET cutoff_date ==
            _resolve_cutoff_date(environ, IF a.cutoff_date = NotPassed THEN None ELSE a.cutoff_date)
        parsed == PredictionSets_list_parse(body)
        filtered == IF Truthy(cutoff_date)
                    THEN _filter_prediction_sets_by_cutoff(parsed.prediction_sets, cutoff_date)
                    ELSE Return(parsed.prediction_sets)
    IN  IF \E i \in DOMAIN parsed.prediction_sets : parsed.prediction_sets[i] = ValidationError
        THEN Raise(ValidationError.error)
        ELSE IF filtered.kind = "raise" THEN filtered
        ELSE Return([prediction_sets |-> filtered.value,
                     page |-> page_or_1(a.page),
                     has_more |-> parsed.has_more])

AsyncPredictionSets_list_params(a, environ) ==
    LET cutoff_date ==
            _resolve_cutoff_date(environ, IF a.cutoff_date = NotPassed THEN None ELSE a.cutoff_date)
    IN  Passed(a, {"question_id", "membership_id", "filter"})
        @@ (IF a.page # None THEN "page" :> a.page ELSE NoParams)
        @@ (IF a.created_before # None
            THEN "created_before" :> a.created_before
            ELSE IF Truthy(cutoff_date)
                 THEN "created_before" :> (cutoff_date \o "T23:59:59")
                 ELSE NoParams)
        @@ Passed(a, {"created_after", "updated_before", "updated_after"})

AsyncPredictionSets_list_parse(body) ==
    IF isinstance_list(body)
    THEN LET prediction_sets ==
                 [i \in DOMAIN body.list |-> PredictionSet_model_validate(body.list[i])]
         IN  [prediction_sets |-> prediction_sets,
              has_more |-> Len(prediction_sets) >= DefaultPageSize]
    ELSE IF isinstance_dict(body)
    THEN LET items == dict_get(body, "prediction_sets",
                               dict_get(body, "results", dict_get(body, "data", JList(<<>>))))
         IN  [prediction_sets |->
                  IF isinstance_list(items)
                  THEN [i \in DOMAIN items.list |-> PredictionSet_model_validate(items.list[i])]
                  ELSE <<>>,
              has_more |-> bool(dict_get(body, "next", JNull))
                            \/ bool(dict_get(body, "has_more", JNull))]
    ELSE [prediction_sets |-> <<>>, has_more |-> FALSE]

AsyncPredictionSets_list_return(a, environ, body) ==
    LET cutoff_date ==
            _resolve_cutoff_date(environ, IF a.cutoff_date = NotPassed THEN None ELSE a.cutoff_date)
        parsed == AsyncPredictionSets_list_parse(body)
        filtered == IF Truthy(cutoff_date)
                    THEN _filter_prediction_sets_by_cutoff(parsed.prediction_sets, cutoff_date)
                    ELSE Return(parsed.prediction_sets)
    IN  IF \E i \in DOMAIN parsed.prediction_sets : parsed.prediction_sets[i] = ValidationError
        THEN Raise(ValidationError.error)
        ELSE IF filtered.kind = "raise" THEN filtered
        ELSE Return([prediction_sets |-> filtered.value,
                     page |-> page_or_1(a.page),
                     has_more |-> parsed.has_more])

----------------------------------------------------------------------------
(* resources/comments.py: handlers *)

Comments_list_params(a, td) ==
    LET cutoff_date == IF a.cutoff_date = NotPassed THEN td ELSE a.cutoff_date
    IN  Passed(a, {"commentable_id", "commentable_type"})
        @@ (IF a.page # None THEN "page" :> a.page ELSE NoParams)
        @@ (IF a.created_before # None
            THEN "created_before" :> a.created_before
            ELSE "created_before" :> (cutoff_date \o "T23:59:59"))
        @@ Passed(a, {"created_after"})

\* the mutant of the parse of Comments.list: results is looked up before comments
Comments_list_parse_ResultsFirst(body) ==
    IF isinstance_list(body)
    THEN LET comments == [i \in DOMAIN body.list |-> Comment_model_validate(body.list[i])]
         IN  [comments |-> comments, has_more |-> Len(comments) >= DefaultPageSize]
    ELSE IF isinstance_dict(body)
    THEN LET items == dict_get(body, "results",
                               dict_get(body, "comments", dict_get(body, "data", JList(<<>>))))
         IN  [comments |-> IF isinstance_list(items)
                           THEN [i \in DOMAIN items.list |-> Comment_model_validate(items.list[i])]
                           ELSE <<>>,
              has_more |-> bool(dict_get(body, "next", JNull))
                            \/ bool(dict_get(body, "has_more", JNull))]
    ELSE [comments |-> <<>>, has_more |-> FALSE]

Comments_list_parse(body) ==
    IF isinstance_list(body)
    THEN LET comments == [i \in DOMAIN body.list |-> Comment_model_validate(body.list[i])]
         IN  [comments |-> comments, has_more |-> Len(comments) >= DefaultPageSize]
    ELSE IF isinstance_dict(body)
    THEN LET items == dict_get(body, "comments",
                               dict_get(body, "results", dict_get(body, "data", JList(<<>>))))
         IN  [comments |-> IF isinstance_list(items)
                           THEN [i \in DOMAIN items.list |-> Comment_model_validate(items.list[i])]
                           ELSE <<>>,
              has_more |-> bool(dict_get(body, "next", JNull))
                            \/ bool(dict_get(body, "has_more", JNull))]
    ELSE [comments |-> <<>>, has_more |-> FALSE]

Comments_list_return(a, td, body) ==
    LET cutoff_date == IF a.cutoff_date = NotPassed THEN td ELSE a.cutoff_date
        parsed == Comments_list_parse(body)
        filtered == _filter_comments_by_cutoff(parsed.comments, cutoff_date)
    IN  IF \E i \in DOMAIN parsed.comments : parsed.comments[i] = ValidationError
        THEN Raise(ValidationError.error)
        ELSE IF filtered.kind = "raise" THEN filtered
        ELSE Return([comments |-> filtered.value,
                     page |-> page_or_1(a.page),
                     has_more |-> parsed.has_more])

AsyncComments_list_params(a, td) ==
    LET cutoff_date == IF a.cutoff_date = NotPassed THEN td ELSE a.cutoff_date
    IN  Passed(a, {"commentable_id", "commentable_type"})
        @@ (IF a.page # None THEN "page" :> a.page ELSE NoParams)
        @@ (IF a.created_before # None
            THEN "created_before" :> a.created_before
            ELSE "created_before" :> (cutoff_date \o "T23:59:59"))
        @@ Passed(a, {"created_after"})

AsyncComments_list_parse(body) ==
    IF isinstance_list(body)
    THEN LET comments == [i \in DOMAIN body.list |-> Comment_model_validate(body.list[i])]
         IN  [comments |-> comments, has_more |-> Len(comments) >= DefaultPageSize]
    ELSE IF isinstance_dict(body)
    THEN LET items == dict_get(body, "comments",
                               dict_get(body, "results", dict_get(body, "data", JList(<<>>))))
         IN  [comments |-> IF isinstance_list(items)
                           THEN [i \in DOMAIN items.list |-> Comment_model_validate(items.list[i])]
                           ELSE <<>>,
              has_more |-> bool(dict_get(body, "next", JNull))
                            \/ bool(dict_get(body, "has_more", JNull))]
    ELSE [comments |-> <<>>, has_more |-> FALSE]

AsyncComments_list_return(a, td, body) ==
    LET cutoff_date == IF a.cutoff_date = NotPassed THEN td ELSE a.cutoff_date
        parsed == AsyncComments_list_parse(body)
        filtered == _filter_comments_by_cutoff(parsed.comments, cutoff_date)
    IN  IF \E i \in DOMAIN parsed.comments : parsed.comments[i] = ValidationError
        THEN Raise(ValidationError.error)
        ELSE IF filtered.kind = "raise" THEN filtered
        ELSE Return([comments |-> filtered.value,
                     page |-> page_or_1(a.page),
                     has_more |-> parsed.has_more])

----------------------------------------------------------------------------
(* resources/*.py: the handlers from the transport call to the return; nothing
   between the two catches an exception *)

\* the mutant of Questions.list: a record that does not decode is skipped
Questions_list_SkipUndecodable(a, td, network) ==
    LET got == BaseClient_get(network)
        decodable(raw) == "id" \in DOMAIN raw
        kept(body) == IF isinstance_list(body)
                      THEN JList(SelectSeq(body.list, decodable))
                      ELSE body
    IN  IF got.kind = "raise" THEN got ELSE Questions_list_return(a, td, kept(got.value))

\* Questions.list: data = self._client.get(...), then decode, filter, package
Questions_list(a, td, network) ==
    LET got == BaseClient_get(network)
    IN  IF got.kind = "raise" THEN got ELSE Questions_list_return(a, td, got.value)

\* AsyncQuestions.list: data = await self._client.get(...)
AsyncQuestions_list(a, td, network) ==
    LET got == AsyncBaseClient_get(network)
    IN  IF got.kind = "raise" THEN got ELSE AsyncQuestions_list_return(a, td, got.value)

\* Questions.get
Questions_get(a, td, network) ==
    LET got == BaseClient_get(network)
    IN  IF got.kind = "raise" THEN got ELSE Questions_get_return(a, td, got.value)

\* AsyncQuestions.get
AsyncQuestions_get(a, td, network) ==
    LET got == AsyncBaseClient_get(network)
    IN  IF got.kind = "raise" THEN got ELSE AsyncQuestions_get_return(a, td, got.value)

\* PredictionSets.list
PredictionSets_list(a, environ, network) ==
    LET got == BaseClient_get(network)
    IN  IF got.kind = "raise" THEN got ELSE PredictionSets_list_return(a, environ, got.value)

\* AsyncPredictionSets.list
AsyncPredictionSets_list(a, environ, network) ==
    LET got == AsyncBaseClient_get(network)
    IN  IF got.kind = "raise" THEN got ELSE AsyncPredictionSets_list_return(a, environ, got.value)

\* Comments.list
Comments_list(a, td, network) ==
    LET got == BaseClient_get(network)
    IN  IF got.kind = "raise" THEN got ELSE Comments_list_return(a, td, got.value)

\* AsyncComments.list
AsyncComments_list(a, td, network) ==
    LET got == AsyncBaseClient_get(network)
    IN  IF got.kind = "raise" THEN got ELSE AsyncComments_list_return(a, td, got.value)

----------------------------------------------------------------------------
(* Inputs *)

SeqsUpTo(S, n) == UNION {[1..k -> S] : k \in 0..n}

\* sequences whose element at position i carries id i
WithIds(times, fields) ==
    [i \in DOMAIN times |-> [f \in fields \cup {"id"} |-> IF f = "id" THEN i ELSE times[i][f]]]

\* the timestamps of one question handed to the filter: any published_at with a
\* coarse created_at, or no published_at with any created_at
QuestionTimes ==
    {[published_at |-> p, created_at |-> c] :
        p \in Datetimes, c \in {NoneDT, At(1, Noon), At(MaxDay, Noon)}}
    \cup {[published_at |-> NoneDT, created_at |-> c] : c \in Datetimes \cup {NoneDT}}
CreatedTimes == {[created_at |-> c] : c \in Datetimes \cup {NoneDT}}
QuestionSeqs == {WithIds(t, {"published_at", "created_at"}) : t \in SeqsUpTo(QuestionTimes, MaxLen)}
CreatedSeqs == {WithIds(t, {"created_at"}) : t \in SeqsUpTo(CreatedTimes, MaxLen)}

\* cutoff strings handed to a filter
FilterCutoffs == Dates \cup {"not-a-date"}

\* what a server answers: any page of records, whatever the query asked for
RawTimes == NoonDatetimes \cup {NoneDT}
RawQuestionTimes == {[published_at |-> p, created_at |-> c] : p \in RawTimes, c \in RawTimes}
RawCreatedTimes == {[created_at |-> c] : c \in RawTimes}

\* entity sequences with repeats: two ids and coarse timestamps, so that an
\* entity can occur several times and distinct entities can share a timestamp
RepeatIds == {1, 2}
RepeatQuestions ==
    {[id |-> i, published_at |-> p, created_at |-> c] :
        i \in RepeatIds, p \in RawTimes, c \in RawTimes}
RepeatCreated == {[id |-> i, created_at |-> c] : i \in RepeatIds, c \in RawTimes}
QuestionRuns == SeqsUpTo(RepeatQuestions, MaxLen)
CreatedRuns == SeqsUpTo(RepeatCreated, MaxLen)
QuestionBodies ==
    {WithIds(t, {"published_at", "created_at"}) : t \in SeqsUpTo(RawQuestionTimes, MaxRecords)}
CreatedBodies == {WithIds(t, {"created_at"}) : t \in SeqsUpTo(RawCreatedTimes, MaxRecords)}

\* the record sequences a server wraps in an object
QuestionEnveloped ==
    {WithIds(t, {"published_at", "created_at"}) : t \in SeqsUpTo(RawQuestionTimes, MaxEnvelope)}
CreatedEnveloped == {WithIds(t, {"created_at"}) : t \in SeqsUpTo(RawCreatedTimes, MaxEnvelope)}

\* n records of the day d: pages around the default page size
SameDayPage(n, d, fields) ==
    WithIds([i \in 1..n |-> [published_at |-> At(d, Noon), created_at |-> At(d, Noon)]], fields)
PageLengths == {DefaultPageSize - 1, DefaultPageSize, DefaultPageSize + 1}

\* the paging fields of an object response: each absent or present
NextValues == {JNull, JStr(""), JStr("/api/v1/questions?page=2")}
HasMoreValues == {JNull, JBool(FALSE), JBool(TRUE)}
PagingFields ==
    {NoParams}
    \cup {"next" :> n : n \in NextValues}
    \cup {"has_more" :> h : h \in HasMoreValues}
    \cup {("next" :> n) @@ ("has_more" :> h) : n \in NextValues, h \in HasMoreValues}

\* the bodies of a list response: bare pages, pages of the default size, objects
\* carrying the records under one of the three keys, objects with paging
\* fields, and bodies without records
Pages(key, bare, enveloped, fields) ==
    {JList(s) : s \in bare}
    \cup {JList(SameDayPage(n, d, fields)) : n \in PageLengths, d \in {1, MaxDay}}
    \cup {JDict(k :> JList(s)) : k \in {key, "results", "data"}, s \in enveloped}
    \cup {JDict((key :> JList(SameDayPage(1, d, fields))) @@ f) :
            d \in {1, MaxDay}, f \in PagingFields}
    \cup {JNull, JDict(NoParams), JDict(key :> JNull)}
QuestionPages ==
    Pages("questions", QuestionBodies, QuestionEnveloped, {"published_at", "created_at"})
PredictionSetPages == Pages("prediction_sets", CreatedBodies, CreatedEnveloped, {"created_at"})
CommentPages == Pages("comments", CreatedBodies, CreatedEnveloped, {"created_at"})
SmallPages(fields) == {JList(SameDayPage(n, MaxDay, fields)) : n \in 0..1}

QuestionIds == {1}
QuestionBody == {[id |-> i, published_at |-> t.published_at, created_at |-> t.created_at] :
                    i \in QuestionIds, t \in RawQuestionTimes}

\* what a caller passes
EnvValues == {None, "", "not-a-date"} \cup Dates
ImportDates == {Calendar[1], Calendar[MaxDay]}
CutoffArgs == {NotPassed, "", "not-a-date"} \cup Dates
CreatedBeforeArgs == {None, "2025-06-01T00:00:00"}
PageArgs == {None} \cup {ToString(p) : p \in 0..MaxPage}
ListArgs == [cutoff_date : CutoffArgs, created_before : CreatedBeforeArgs,
             page : {None}, filters : {NoParams}]

\* the other filters of a call: none, one, values that are falsy but not None, all
QuestionsFilters ==
    {NoParams,
     "status" :> "closed",
     ("status" :> "") @@ ("include_tag_ids" :> "False"),
     ("status" :> "all") @@ ("tags" :> "ai,economy") @@ ("challenges" :> "7")
        @@ ("sort" :> "published_at") @@ ("filter" :> "featured") @@ ("ids" :> "1,2")
        @@ ("created_after" :> "2024-01-01") @@ ("updated_before" :> "2025-06-01")
        @@ ("updated_after" :> "2024-01-01") @@ ("include_tag_ids" :> "True")}
PredictionSetsFilters ==
    {NoParams,
     "question_id" :> "42",
     ("question_id" :> "0") @@ ("filter" :> ""),
     ("question_id" :> "42") @@ ("membership_id" :> "9") @@ ("filter" :> "comments_with_links")
        @@ ("created_after" :> "2024-01-01") @@ ("updated_before" :> "2025-06-01")
        @@ ("updated_after" :> "2024-01-01")}
CommentsFilters ==
    {NoParams,
     "commentable_id" :> "42",
     ("commentable_id" :> "0") @@ ("commentable_type" :> ""),
     ("commentable_id" :> "42") @@ ("commentable_type" :> "Forecast::Question")
        @@ ("created_after" :> "2024-01-01")}
PagedArgs(filters) ==
    [cutoff_date : {NotPassed, Calendar[1]}, created_before : CreatedBeforeArgs,
     page : PageArgs, filters : filters]

\* the calls of requests whose single post is answered 200 with the body
Answered(requests) == {<<c[1], <<Ok(200, c[2])>> >> : c \in requests}

\* the calls of a list handler: every cutoff against every body, and every
\* page and filter against a short page
QuestionsListCalls ==
    Answered((ListArgs \X QuestionPages)
             \cup (PagedArgs(QuestionsFilters) \X SmallPages({"published_at", "created_at"})))
PredictionSetsListCalls ==
    Answered((ListArgs \X PredictionSetPages)
             \cup (PagedArgs(PredictionSetsFilters) \X SmallPages({"created_at"})))
CommentsListCalls ==
    Answered((ListArgs \X CommentPages)
             \cup (PagedArgs(CommentsFilters) \X SmallPages({"created_at"})))
GetArgs == [question_id : QuestionIds, cutoff_date : CutoffArgs]
QuestionsGetCalls == Answered(GetArgs \X QuestionBody)
ResolveArgs == {None, "", "not-a-date"} \cup Dates

NoArgs == [nothing |-> TRUE]
NoHttp == <<>>
NoCalls == <<>>

NoResult == [kind |-> "none"]

----------------------------------------------------------------------------
(* The caller *)

\* the caller is between two calls
Idle == op = "none"

\* the caller drops the outcome of the last call before it makes the next one
NextCall ==
    /\ ~Idle
    /\ op' = "none"
    /\ args' = NoArgs
    /\ query' = NoQuery
    /\ data' = NoData
    /\ result' = NoResult
    /\ http' = NoHttp
    /\ UNCHANGED <<env, today, calls>>

Init ==
    /\ env \in EnvValues
    /\ today \in ImportDates
    /\ op = "none"
    /\ args = NoArgs
    /\ query = NoQuery
    /\ data = NoData
    /\ result = NoResult
    /\ http = NoHttp
    /\ calls = NoCalls

ResolveCutoffDate ==
    /\ Idle
    /\ \E p \in ResolveArgs :
        /\ op' = "_resolve_cutoff_date"
        /\ args' = [cutoff_date |-> p]
        /\ result' = Return(_resolve_cutoff_date(env, p))
        /\ env' = _resolve_cutoff_date_environ(env, p)
    /\ UNCHANGED <<today, query, data, http, calls>>

\* the body a call got from its transport, if it got one
Body(got) == IF got.kind = "return" THEN got.value ELSE NoData

QuestionsList(requests) ==
    /\ Idle
    /\ \E c \in requests :
        LET a == c[1]
            network == c[2]
        IN  /\ op' = "Questions.list"
            /\ args' = a
            /\ query' = [path |-> "/api/v1/questions",
                         params |-> BaseClient_build_params(Questions_list_params(a, today))]
            /\ http' = BaseClient_dispatch_posts(network)
            /\ data' = Body(BaseClient_get(network))
            /\ result' = Questions_list(a, today, network)
    /\ UNCHANGED <<env, today, calls>>

AsyncQuestionsList(requests) ==
    /\ Idle
    /\ \E c \in requests :
        LET a == c[1]
            network == c[2]
        IN  /\ op' = "AsyncQuestions.list"
            /\ args' = a
            /\ query' = [path |-> "/api/v1/questions",
                         params |-> AsyncBaseClient_build_params(AsyncQuestions_list_params(a, today))]
            /\ http' = AsyncBaseClient_dispatch_posts(network)
            /\ data' = Body(AsyncBaseClient_get(network))
            /\ result' = AsyncQuestions_list(a, today, network)
    /\ UNCHANGED <<env, today, calls>>

QuestionsGet(requests) ==
    /\ Idle
    /\ \E c \in requests :
        LET a == c[1]
            network == c[2]
        IN  /\ op' = "Questions.get"
            /\ args' = a
            /\ query' = [path |-> Questions_get_path(a), params |-> BaseClient_build_params(NoParams)]
            /\ http' = BaseClient_dispatch_posts(network)
            /\ data' = Body(BaseClient_get(network))
            /\ result' = Questions_get(a, today, network)
    /\ UNCHANGED <<env, today, calls>>

AsyncQuestionsGet(requests) ==
    /\ Idle
    /\ \E c \in requests :
        LET a == c[1]
            network == c[2]
        IN  /\ op' = "AsyncQuestions.get"
            /\ args' = a
            /\ query' = [path |-> AsyncQuestions_get_path(a), params |-> AsyncBaseClient_build_params(NoParams)]
            /\ http' = AsyncBaseClient_dispatch_posts(network)
            /\ data' = Body(AsyncBaseClient_get(network))
            /\ result' = AsyncQuestions_get(a, today, network)
    /\ UNCHANGED <<env, today, calls>>

PredictionSetsList(requests) ==
    /\ Idle
    /\ \E c \in requests :
        LET a == c[1]
            network == c[2]
        IN  /\ op' = "PredictionSets.list"
            /\ args' = a
            /\ query' = [path |-> "/api/v1/prediction_sets",
                         params |-> BaseClient_build_params(PredictionSets_list_params(a, env))]
            /\ http' = BaseClient_dispatch_posts(network)
            /\ data' = Body(BaseClient_get(network))
            /\ result' = PredictionSets_list(a, env, network)
            /\ env' = _resolve_cutoff_date_environ(env, IF a.cutoff_date = NotPassed THEN None ELSE a.cutoff_date)
    /\ UNCHANGED <<today, calls>>

AsyncPredictionSetsList(requests) ==
    /\ Idle
    /\ \E c \in requests :
        LET a == c[1]
            network == c[2]
        IN  /\ op' = "AsyncPredictionSets.list"
            /\ args' = a
            /\ query' = [path |-> "/api/v1/prediction_sets",
                         params |-> AsyncBaseClient_build_params(AsyncPredictionSets_list_params(a, env))]
            /\ http' = AsyncBaseClient_dispatch_posts(network)
            /\ data' = Body(AsyncBaseClient_get(network))
            /\ result' = AsyncPredictionSets_list(a, env, network)
            /\ env' = _resolve_cutoff_date_environ(env, IF a.cutoff_date = NotPassed THEN None ELSE a.cutoff_date)
    /\ UNCHANGED <<today, calls>>

CommentsList(requests) ==
    /\ Idle
    /\ \E c \in requests :
        LET a == c[1]
            network == c[2]
        IN  /\ op' = "Comments.list"
            /\ args' = a
            /\ query' = [path |-> "/api/v1/comments",
                         params |-> BaseClient_build_params(Comments_list_params(a, today))]
            /\ http' = BaseClient_dispatch_posts(network)
            /\ data' = Body(BaseClient_get(network))
            /\ result' = Comments_list(a, today, network)
    /\ UNCHANGED <<env, today, calls>>

AsyncCommentsList(requests) ==
    /\ Idle
    /\ \E c \in requests :
        LET a == c[1]
            network == c[2]
        IN  /\ op' = "AsyncComments.list"
            /\ args' = a
            /\ query' = [path |-> "/api/v1/comments",
                         params |-> AsyncBaseClient_build_params(AsyncComments_list_params(a, today))]
            /\ http' = AsyncBaseClient_dispatch_posts(network)
            /\ data' = Body(AsyncBaseClient_get(network))
            /\ result' = AsyncComments_list(a, today, network)
    /\ UNCHANGED <<env, today, calls>>

Next ==
    \/ ResolveCutoffDate
    \/ QuestionsList(QuestionsListCalls)
    \/ AsyncQuestionsList(QuestionsListCalls)
    \/ QuestionsGet(QuestionsGetCalls)
    \/ AsyncQuestionsGet(QuestionsGetCalls)
    \/ PredictionSetsList(PredictionSetsListCalls)
    \/ AsyncPredictionSetsList(PredictionSetsListCalls)
    \/ CommentsList(CommentsListCalls)
    \/ AsyncCommentsList(CommentsListCalls)
    \/ NextCall

Spec == Init /\ [][Next]_vars

----------------------------------------------------------------------------
(* SpecFilter: the temporal filters on arbitrary inputs *)

InitFilter ==
    /\ env = None
    /\ today = Calendar[1]
    /\ op = "none"
    /\ args = NoArgs
    /\ query = NoQuery
    /\ data = NoData
    /\ result = NoResult
    /\ http = NoHttp
    /\ calls = NoCalls

FilterQuestions ==
    /\ Idle
    /\ \E questions \in QuestionSeqs, c \in FilterCutoffs :
        /\ op' = "_filter_questions_by_cutoff"
        /\ args' = [entities |-> questions, cutoff_date |-> c]
        /\ result' = _filter_questions_by_cutoff(questions, c)
    /\ UNCHANGED <<env, today, query, data, http, calls>>

FilterPredictionSets ==
    /\ Idle
    /\ \E prediction_sets \in CreatedSeqs, c \in FilterCutoffs :
        /\ op' = "_filter_prediction_sets_by_cutoff"
        /\ args' = [entities |-> prediction_sets, cutoff_date |-> c]
        /\ result' = _filter_prediction_sets_by_cutoff(prediction_sets, c)
    /\ UNCHANGED <<env, today, query, data, http, calls>>

FilterComments ==
    /\ Idle
    /\ \E comments \in CreatedSeqs, c \in FilterCutoffs :
        /\ op' = "_filter_comments_by_cutoff"
        /\ args' = [entities |-> comments, cutoff_date |-> c]
        /\ result' = _filter_comments_by_cutoff(comments, c)
    /\ UNCHANGED <<env, today, query, data, http, calls>>

NextFilter == FilterQuestions \/ FilterPredictionSets \/ FilterComments \/ NextCall

SpecFilter == InitFilter /\ [][NextFilter]_vars

----------------------------------------------------------------------------
(* SpecRuns: the temporal filters on sequences with repeated entities *)

FilterQuestionRun ==
    /\ Idle
    /\ \E questions \in QuestionRuns, c \in FilterCutoffs :
        /\ op' = "_filter_questions_by_cutoff"
        /\ args' = [entities |-> questions, cutoff_date |-> c]
        /\ result' = _filter_questions_by_cutoff(questions, c)
    /\ UNCHANGED <<env, today, query, data, http, calls>>

FilterPredictionSetRun ==
    /\ Idle
    /\ \E prediction_sets \in CreatedRuns, c \in FilterCutoffs :
        /\ op' = "_filter_prediction_sets_by_cutoff"
        /\ args' = [entities |-> prediction_sets, cutoff_date |-> c]
        /\ result' = _filter_prediction_sets_by_cutoff(prediction_sets, c)
    /\ UNCHANGED <<env, today, query, data, http, calls>>

FilterCommentRun ==
    /\ Idle
    /\ \E comments \in CreatedRuns, c \in FilterCutoffs :
        /\ op' = "_filter_comments_by_cutoff"
        /\ args' = [entities |-> comments, cutoff_date |-> c]
        /\ result' = _filter_comments_by_cutoff(comments, c)
    /\ UNCHANGED <<env, today, query, data, http, calls>>

NextRuns == FilterQuestionRun \/ FilterPredictionSetRun \/ FilterCommentRun \/ NextCall

SpecRuns == InitFilter /\ [][NextRuns]_vars

----------------------------------------------------------------------------
(* SpecTransport: construction of the clients, and the handlers against every
   answer of the transport *)

\* a record of the day d with id i, and a record without its id
RecOf(i, d, fields) == [f \in fields \cup {"id"} |-> IF f = "id" THEN i ELSE At(d, Noon)]
NoId(fields) == [f \in fields |-> At(1, Noon)]

\* the values found under a key of an object response
Carried(i, fields) == {JList(<<RecOf(i, 1, fields)>>), JList(<<>>), JNull, JStr("n/a")}

\* objects with any of the keys key, results, data, each carrying its own record
Envelopes(key, fields) ==
    {k1 @@ k2 @@ k3 :
        k1 \in {NoParams} \cup {key :> v : v \in Carried(1, fields)},
        k2 \in {NoParams} \cup {"results" :> v : v \in Carried(2, fields)},
        k3 \in {NoParams} \cup {"data" :> v : v \in Carried(3, fields)}}

\* the bodies of a 200 answer to a list call
ListBodies(key, fields) ==
    {JList(<<>>), JList(<<RecOf(1, 1, fields)>>), JList(<<NoId(fields)>>),
     JList(<<RecOf(1, 1, fields), NoId(fields)>>), JList(<<NoId(fields), RecOf(2, 1, fields)>>),
     JDict(key :> JList(<<RecOf(1, 1, fields), NoId(fields)>>)),
     JNull, JStr("ok"), JBool(TRUE)}
    \cup {JDict(e) : e \in Envelopes(key, fields)}

\* the bodies of a 200 answer to Questions.get


\* what one post can be answered with
Posts(bodies) ==
    {TimeoutException, ConnectError, ReadError}
    \cup {EnclaveAnswer(st) : st \in {200, 401, 403, 500, 502}}
    \cup {Fail(code) : code \in {"RATE_LIMITED", "AUTH_FAILED", "DOWNSTREAM_TIMEOUT",
                                "DOWNSTREAM_UNREACHABLE", "ENCLAVE_UNAVAILABLE",
                                "SERVICE_NOT_FOUND", "INTERNAL_ERROR"}}
    \cup {Ok(200, b) : b \in bodies}
    \cup {Ok(st, b) : st \in {201, 399, 400, 401, 403, 404, 409, 418, 429, 499, 500, 503},
                       b \in {JNull, JDict("error" :> JStr("no such thing"))}}

\* what the posts of one call would be answered with, should it make several
Networks(bodies) ==
    {<<post>> : post \in Posts(bodies)}
    \cup {<<f, Ok(200, b)>> : f \in {TimeoutException, ConnectError, ReadError}, b \in bodies}


\* the calls of SpecTransport: few arguments against every answer, and every
\* argument against a small page
Requests(key, fields, filters) ==
    ([cutoff_date : {NotPassed, Calendar[1]}, created_before : {None},
      page : {None, "2"}, filters : {NoParams}] \X Networks(ListBodies(key, fields)))
    \cup ((ListArgs \cup PagedArgs(filters)) \X {<<Ok(200, b)>> : b \in SmallPages(fields)})
QuestionsRequests == Requests("questions", {"published_at", "created_at"}, QuestionsFilters)
PredictionSetsRequests == Requests("prediction_sets", {"created_at"}, PredictionSetsFilters)
CommentsRequests == Requests("comments", {"created_at"}, CommentsFilters)
GetRequests ==
    GetArgs \X Networks({RecOf(1, 1, {"published_at", "created_at"}),
                         NoId({"published_at", "created_at"})})

\* the environment a client is constructed in
Environs ==
    [ENCLAVE_URL : {None, "", "https://enclave"},
     MIDDLEWARE_AUTH_SECRET : {None, "", "c2VjcmV0", "c2VjcmV"}]

ClientInit ==
    /\ Idle
    /\ \E environ \in Environs :
        /\ op' = "Client"
        /\ args' = environ
        /\ result' = Client_init(environ).result
        /\ http' = Client_init(environ).http
    /\ UNCHANGED <<env, today, query, data, calls>>

AsyncClientInit ==
    /\ Idle
    /\ \E environ \in Environs :
        /\ op' = "AsyncClient"
        /\ args' = environ
        /\ result' = AsyncClient_init(environ).result
        /\ http' = AsyncClient_init(environ).http
    /\ UNCHANGED <<env, today, query, data, calls>>


NextTransport ==
    \/ ResolveCutoffDate
    \/ ClientInit
    \/ AsyncClientInit
    \/ QuestionsList(QuestionsRequests)
    \/ AsyncQuestionsList(QuestionsRequests)
    \/ QuestionsGet(GetRequests)
    \/ AsyncQuestionsGet(GetRequests)
    \/ PredictionSetsList(PredictionSetsRequests)
    \/ AsyncPredictionSetsList(PredictionSetsRequests)
    \/ CommentsList(CommentsRequests)
    \/ AsyncCommentsList(CommentsRequests)
    \/ NextCall

SpecTransport == Init /\ [][NextTransport]_vars

----------------------------------------------------------------------------
(* SpecCalls: callers sharing one client.  A call runs up to its transport call,
   other calls and the harness run while its post is in flight, then it
   resumes with the answer. *)

Callers == {1, 2}

\* the path and params the call o sends for the arguments a
Call_query(o, a, environ, td) ==
    CASE o = "Questions.list" ->
            [path |-> "/api/v1/questions",
             params |-> BaseClient_build_params(Questions_list_params(a, td))]
      [] o = "AsyncQuestions.list" ->
            [path |-> "/api/v1/questions",
             params |-> AsyncBaseClient_build_params(AsyncQuestions_list_params(a, td))]
      [] o = "Questions.get" ->
            [path |-> Questions_get_path(a), params |-> BaseClient_build_params(NoParams)]
      [] o = "AsyncQuestions.get" ->
            [path |-> AsyncQuestions_get_path(a),
             params |-> AsyncBaseClient_build_params(NoParams)]
      [] o = "PredictionSets.list" ->
            [path |-> "/api/v1/prediction_sets",
             params |-> BaseClient_build_params(PredictionSets_list_params(a, environ))]
      [] o = "AsyncPredictionSets.list" ->
            [path |-> "/api/v1/prediction_sets",
             params |-> AsyncBaseClient_build_params(AsyncPredictionSets_list_params(a, environ))]
      [] o = "Comments.list" ->
            [path |-> "/api/v1/comments",
             params |-> BaseClient_build_params(Comments_list_params(a, td))]
      [] o = "AsyncComments.list" ->
            [path |-> "/api/v1/comments",
             params |-> AsyncBaseClient_build_params(AsyncComments_list_params(a, td))]

\* what the call o yields for the arguments a when its post is answered by network
Call_return(o, a, environ, td, network) ==
    CASE o = "Questions.list" -> Questions_list(a, td, network)
      [] o = "AsyncQuestions.list" -> AsyncQuestions_list(a, td, network)
      [] o = "Questions.get" -> Questions_get(a, td, network)
      [] o = "AsyncQuestions.get" -> AsyncQuestions_get(a, td, network)
      [] o = "PredictionSets.list" -> PredictionSets_list(a, environ, network)
      [] o = "AsyncPredictionSets.list" -> AsyncPredictionSets_list(a, environ, network)
      [] o = "Comments.list" -> Comments_list(a, td, network)
      [] o = "AsyncComments.list" -> AsyncComments_list(a, td, network)

\* the override a call filters with after its transport call: cutoff_date is a
\* local, resolved from the value os.environ.get returned before the call
\* (call.environ); environ is the value of CUTOFF_DATE by now
cutoff_date_local_Reread(call, environ) == environ

cutoff_date_local(call, environ) == call.environ

CallOps == {"Questions.list", "AsyncQuestions.list", "Questions.get", "AsyncQuestions.get",
            "PredictionSets.list", "AsyncPredictionSets.list", "Comments.list",
            "AsyncComments.list"}
CallArgs(o) ==
    IF o \in {"Questions.get", "AsyncQuestions.get"}
    THEN [question_id : QuestionIds, cutoff_date : {NotPassed}]
    ELSE [cutoff_date : {NotPassed, Calendar[1]}, created_before : {None},
          page : {None}, filters : {NoParams}]
CallAnswers(o) ==
    {TimeoutException}
    \cup (IF o \in {"Questions.get", "AsyncQuestions.get"}
          THEN {Ok(200, RecOf(1, 1, {"published_at", "created_at"}))}
          ELSE IF o \in {"Questions.list", "AsyncQuestions.list"}
          THEN {Ok(200, JList(<<RecOf(1, 1, {"published_at", "created_at"}),
                            RecOf(2, MaxDay, {"published_at", "created_at"})>>))}
          ELSE {Ok(200, JList(<<RecOf(1, 1, {"created_at"}), RecOf(2, MaxDay, {"created_at"})>>))})
Overrides == {None, Calendar[1], Calendar[MaxDay]}

IdleCall ==
    [pc |-> "idle", op |-> "none", args |-> NoArgs, environ |-> None, query |-> NoQuery,
     post |-> [kind |-> "none"], result |-> NoResult, moved |-> FALSE]

InitCalls ==
    /\ env \in Overrides
    /\ today = Calendar[MaxDay]
    /\ op = "none"
    /\ args = NoArgs
    /\ query = NoQuery
    /\ data = NoData
    /\ result = NoResult
    /\ http = NoHttp
    /\ calls = [c \in Callers |-> IdleCall]

\* caller c enters a handler, which runs up to its transport call
Begin(c) ==
    /\ calls[c].pc = "idle"
    /\ \E o \in CallOps : \E a \in CallArgs(o) :
        calls' = [calls EXCEPT ![c] =
                    [pc |-> "sent", op |-> o, args |-> a, environ |-> env,
                     query |-> Call_query(o, a, env, today),
                     post |-> [kind |-> "none"], result |-> NoResult, moved |-> FALSE]]
    /\ UNCHANGED <<env, today, op, args, query, data, result, http>>

\* the post of caller c is answered and its handler runs to the end
Finish(c) ==
    /\ calls[c].pc = "sent"
    /\ \E post \in CallAnswers(calls[c].op) :
        calls' = [calls EXCEPT ![c].pc = "done",
                               ![c].post = post,
                               ![c].result =
                                   Call_return(calls[c].op, calls[c].args,
                                               cutoff_date_local(calls[c], env), today,
                                               <<post>>)]
    /\ UNCHANGED <<env, today, op, args, query, data, result, http>>

\* caller c takes the outcome of its call
Collect(c) ==
    /\ calls[c].pc = "done"
    /\ calls' = [calls EXCEPT ![c] = IdleCall]
    /\ UNCHANGED <<env, today, op, args, query, data, result, http>>

\* the harness sets, changes or unsets CUTOFF_DATE while calls are in flight
SetOverride ==
    /\ \E c \in Callers : calls[c].pc = "sent"
    /\ \E e \in Overrides \ {env} : env' = e
    /\ calls' = [c \in Callers |->
                    IF calls[c].pc # "idle" THEN [calls[c] EXCEPT !.moved = TRUE]
                    ELSE calls[c]]
    /\ UNCHANGED <<today, op, args, query, data, result, http>>

NextCalls ==
    \/ \E c \in Callers : Begin(c)
    \/ \E c \in Callers : Finish(c)
    \/ \E c \in Callers : Collect(c)
    \/ SetOverride

SpecCalls == InitCalls /\ [][NextCalls]_vars

----------------------------------------------------------------------------
(* Vocabulary of the properties *)

ListOps == {"Questions.list", "AsyncQuestions.list", "PredictionSets.list",
            "AsyncPredictionSets.list", "Comments.list", "AsyncComments.list"}
GetOps == {"Questions.get", "AsyncQuestions.get"}
FilterOps == {"_filter_questions_by_cutoff", "_filter_prediction_sets_by_cutoff",
              "_filter_comments_by_cutoff"}

Range(f) == {f[i] : i \in DOMAIN f}

\* the entity sequence of a list result
Items(v) ==
    IF "questions" \in DOMAIN v THEN v.questions
    ELSE IF "prediction_sets" \in DOMAIN v THEN v.prediction_sets
    ELSE v.comments

\* the key a resource's object response carries its records under
ResourceKey(o) ==
    IF o \in {"Questions.list", "AsyncQuestions.list"} THEN "questions"
    ELSE IF o \in {"PredictionSets.list", "AsyncPredictionSets.list"} THEN "prediction_sets"
    ELSE "comments"

\* the keys of an object response that may carry the records
CarrierKeys(o) == {ResourceKey(o), "results", "data"}

\* the raw records of a body: the bare list, or the list under the one carrier key
RawRecords(o, body) ==
    IF body.t = "list" THEN body.list
    ELSE IF body.t = "dict"
            /\ \E k \in CarrierKeys(o) :
                  DOMAIN body.dict \cap CarrierKeys(o) = {k} /\ body.dict[k].t = "list"
         THEN body.dict[CHOOSE k \in CarrierKeys(o) : k \in DOMAIN body.dict].list
         ELSE <<>>

\* the entity sequence a sequence of raw records decodes to, field by field
Decoded(o, body) ==
    IF o \in {"Questions.list", "AsyncQuestions.list"}
    THEN [i \in DOMAIN body |->
            [id |-> body[i].id, published_at |-> body[i].published_at,
             created_at |-> body[i].created_at]]
    ELSE [i \in DOMAIN body |-> [id |-> body[i].id, created_at |-> body[i].created_at]]

\* the qualifying timestamp of an entity (NoneDT: it has none)
QualifyingTimestamp(e) ==
    IF "published_at" \in DOMAIN e /\ e.published_at # NoneDT THEN e.published_at
    ELSE e.created_at

\* the wall-clock reading of t, offset discarded, is not after 23:59:59 of the date c
NotAfterCutoff(t, c) ==
    \E d \in 1..Len(Calendar) :
        /\ Calendar[d] = c
        /\ \/ t.day < d
           \/ t.day = d /\ t.sec < 86399
           \/ t.day = d /\ t.sec = 86399 /\ t.us = 0

\* an entity is visible as of the date c
VisibleAsOf(e, c) ==
    QualifyingTimestamp(e) = NoneDT \/ NotAfterCutoff(QualifyingTimestamp(e), c)

IsDate(s) == \E d \in 1..Len(Calendar) : Calendar[d] = s

\* the effective cutoff of the call in progress: override, else parameter, else None
EffectiveCutoff ==
    IF env # None /\ env # "" THEN env
    ELSE IF args.cutoff_date \in {NotPassed, None, ""} THEN None
    ELSE args.cutoff_date

OverrideOff == env = None \/ env = ""

----------------------------------------------------------------------------
(* Properties *)

\* C1: a list call made with no cutoff_date, no created_before and the override
\* unset or empty sends a query without a created_before field.
C1_NoCutoffNoDateBound ==
    (op \in ListOps /\ args.cutoff_date = NotPassed /\ args.created_before = None /\ OverrideOff)
        => "created_before" \notin DOMAIN query.params

\* C2: a list call made with no cutoff_date and the override unset or empty
\* returns the full decoded sequence of the raw response.
C2_NoCutoffReturnsAll ==
    (op \in ListOps /\ args.cutoff_date = NotPassed /\ OverrideOff)
        => /\ result.kind = "return"
           /\ Items(result.value) = Decoded(op, RawRecords(op, data))

\* C3: when a list call resolves an effective cutoff c, every entity it returns
\* has no qualifying timestamp or one that is not after c 23:59:59.
C3_ResultWithinCutoff ==
    (op \in ListOps /\ IsDate(EffectiveCutoff) /\ result.kind = "return")
        => \A e \in Range(Items(result.value)) : VisibleAsOf(e, EffectiveCutoff)

\* C4: with the override set to the date e, a list call without created_before
\* sends created_before = e + "T23:59:59" and returns the raw page filtered with e,
\* whatever cutoff_date the caller passed.
C4_OverrideWinsInList ==
    (op \in ListOps /\ IsDate(env) /\ args.created_before = None)
        => /\ "created_before" \in DOMAIN query.params
           /\ query.params["created_before"] = env \o "T23:59:59"
           /\ result.kind = "return"
           /\ Items(result.value)
                = SelectSeq(Decoded(op, RawRecords(op, data)), LAMBDA e : VisibleAsOf(e, env))

\* C5: when the override is set and non-empty, _resolve_cutoff_date returns it
\* for every parameter.
C5_OverridePrecedence ==
    (op = "_resolve_cutoff_date" /\ ~OverrideOff) => result = Return(env)

C5_Witness ==
    /\ op = "_resolve_cutoff_date"
    /\ env = Calendar[1]
    /\ args.cutoff_date = Calendar[2]
    /\ result = Return(Calendar[1])

\* C6: when the override is unset or empty, _resolve_cutoff_date returns the
\* parameter if it is set and non-empty and None otherwise, and does not raise.
C6_ResolverFallbacks ==
    (op = "_resolve_cutoff_date" /\ OverrideOff)
        => /\ result.kind = "return"
           /\ (args.cutoff_date \notin {None, ""} => result.value = args.cutoff_date)
           /\ (args.cutoff_date \in {None, ""} => result.value = None)

C6_Witness ==
    /\ op = "_resolve_cutoff_date"
    /\ env = ""
    /\ args.cutoff_date = None
    /\ result = Return(None)

\* C7: each temporal filter keeps an entity that has a qualifying timestamp T
\* iff T, offset discarded, is not after cutoff 23:59:59.
C7_FilterCorrectness ==
    (op \in FilterOps /\ result.kind = "return")
        => \A e \in Range(args.entities) :
              QualifyingTimestamp(e) # NoneDT
                => (e \in Range(result.value)
                      <=> NotAfterCutoff(QualifyingTimestamp(e), args.cutoff_date))

\* the cutoff day's 23:59:59 is kept, its 23:59:59.5 and the next day's 00:30+01:00 are dropped
C7_Witness ==
    /\ op = "_filter_prediction_sets_by_cutoff"
    /\ args.cutoff_date = Calendar[1]
    /\ \E e \in Range(args.entities) :
          /\ e.created_at = At(1, [sec |-> 86399, us |-> 0, tz |-> None])
          /\ e \in Range(result.value)
    /\ \E e \in Range(args.entities) :
          /\ e.created_at = At(1, [sec |-> 86399, us |-> 500000, tz |-> "+00:00"])
          /\ e \notin Range(result.value)

\* C8: each temporal filter keeps every entity that has no qualifying timestamp.
C8_UndatedKept ==
    (op \in FilterOps /\ result.kind = "return")
        => \A e \in Range(args.entities) :
              QualifyingTimestamp(e) = NoneDT => e \in Range(result.value)

C8_Witness ==
    /\ op = "_filter_questions_by_cutoff"
    /\ result.kind = "return"
    /\ Len(args.entities) = 2
    /\ Len(result.value) = 1
    /\ result.value[1].published_at = NoneDT
    /\ result.value[1].created_at = NoneDT

\* C9: the filter decides a question on published_at alone when it is present
\* and on created_at only when published_at is absent.
C9_PublishedBeforeCreated ==
    (op = "_filter_questions_by_cutoff" /\ result.kind = "return")
        => \A q \in Range(args.entities) :
              /\ q.published_at # NoneDT
                    => (q \in Range(result.value)
                          <=> NotAfterCutoff(q.published_at, args.cutoff_date))
              /\ (q.published_at = NoneDT /\ q.created_at # NoneDT)
                    => (q \in Range(result.value)
                          <=> NotAfterCutoff(q.created_at, args.cutoff_date))

\* published after and created before the cutoff: dropped;
\* published before and created after the cutoff: kept
C9_Witness ==
    /\ op = "_filter_questions_by_cutoff"
    /\ args.cutoff_date = Calendar[1]
    /\ \E q \in Range(args.entities) :
          /\ q.published_at.day = 2
          /\ q.created_at = At(1, Noon)
          /\ q \notin Range(result.value)
    /\ \E q \in Range(args.entities) :
          /\ q.published_at = At(1, [sec |-> 86399, us |-> 0, tz |-> None])
          /\ q.created_at = At(MaxDay, Noon)
          /\ q \in Range(result.value)

\* C10: Questions.get with the effective cutoff c returns None for a question
\* whose qualifying timestamp is after c 23:59:59.
C10_GetHidesLaterQuestion ==
    (op \in GetOps /\ IsDate(EffectiveCutoff)
        /\ ~VisibleAsOf(Decoded("Questions.list", <<data>>)[1], EffectiveCutoff))
        => result = Return(NoneObj)

\* C11: Questions.get fetches /api/v1/questions/{id} with no query parameter and
\* returns the decoded question when no cutoff is resolved, whatever its
\* timestamps, or when the question is visible as of the resolved cutoff.
C11_GetReturnsQuestion ==
    op \in GetOps
        => /\ query.path = "/api/v1/questions/" \o ToString(args.question_id)
           /\ DOMAIN query.params = {}
           /\ (\/ EffectiveCutoff = None
               \/ /\ IsDate(EffectiveCutoff)
                  /\ VisibleAsOf(Decoded("Questions.list", <<data>>)[1], EffectiveCutoff))
                 => result = Return(Decoded("Questions.list", <<data>>)[1])

\* no cutoff, and a question published after the import date, is returned
C11_Witness ==
    /\ op = "Questions.get"
    /\ OverrideOff
    /\ args.cutoff_date = NotPassed
    /\ today = Calendar[1]
    /\ data.published_at = At(MaxDay, Noon)
    /\ result.kind = "return"
    /\ result.value.published_at = At(MaxDay, Noon)

\* C12: a list call sends the caller's created_before verbatim, whatever the
\* cutoff; without one, when an effective cutoff c is resolved, it sends
\* created_before = c + "T23:59:59".
C12_DateBound ==
    op \in ListOps
        => /\ args.created_before # None
                => /\ "created_before" \in DOMAIN query.params
                   /\ query.params["created_before"] = args.created_before
           /\ (args.created_before = None /\ EffectiveCutoff # None)
                => /\ "created_before" \in DOMAIN query.params
                   /\ query.params["created_before"] = EffectiveCutoff \o "T23:59:59"

\* C13: a list call whose effective cutoff is not a YYYY-MM-DD date fails; it
\* returns no sequence, filtered or not.
C13_MalformedCutoffFails ==
    (op \in ListOps /\ EffectiveCutoff # None /\ ~IsDate(EffectiveCutoff))
        => result.kind = "raise"

\* what the handler of the call o returns for the arguments a and the body
ListReturn(o, a, body) ==
    CASE o = "Questions.list" -> Questions_list_return(a, today, body)
      [] o = "AsyncQuestions.list" -> AsyncQuestions_list_return(a, today, body)
      [] o = "PredictionSets.list" -> PredictionSets_list_return(a, env, body)
      [] o = "AsyncPredictionSets.list" -> AsyncPredictionSets_list_return(a, env, body)
      [] o = "Comments.list" -> Comments_list_return(a, today, body)
      [] o = "AsyncComments.list" -> AsyncComments_list_return(a, today, body)

\* the body is an object carrying a list of records under exactly one of the
\* resource key, results and data
Enveloped ==
    /\ data.t = "dict"
    /\ \E k \in CarrierKeys(op) :
          DOMAIN data.dict \cap CarrierKeys(op) = {k} /\ data.dict[k].t = "list"

\* C14: a list call answered by an object carrying the records under the
\* resource key, results or data ends as the same call answered by the bare list
\* of these records does, with the same entity sequence.
C14_EnvelopeEquivalence ==
    (op \in ListOps /\ Enveloped)
        => LET bare == ListReturn(op, args, JList(RawRecords(op, data)))
           IN  /\ result.kind = bare.kind
               /\ result.kind = "return" => Items(result.value) = Items(bare.value)

\* a record under "data" comes back as an entity
C14_Witness ==
    /\ op = "Questions.list"
    /\ data.t = "dict"
    /\ DOMAIN data.dict = {"data"}
    /\ Len(data.dict["data"].list) = 1
    /\ result.kind = "return"
    /\ Len(result.value.questions) = 1

\* the page of the call went out as it was passed
PageSent ==
    IF args.page = None THEN "page" \notin DOMAIN query.params
    ELSE "page" \in DOMAIN query.params /\ query.params["page"] = args.page

\* C15 as stated: every page p the caller passes goes out as p and comes back
\* as the result's page; with no page, none goes out and the result's page is 1.
C15_PageRoundTrip ==
    op \in ListOps
        => /\ PageSent
           /\ result.kind = "return"
                => result.value.page = (IF args.page = None THEN "1" ELSE args.page)

\* C15 amended: every page p the caller passes goes out as p; the result's page
\* is p when p is not 0, and 1 when p is 0 or no page is passed.
C15_PageRoundTripNonZero ==
    op \in ListOps
        => /\ PageSent
           /\ result.kind = "return"
                => result.value.page = (IF args.page \in {None, "0"} THEN "1" ELSE args.page)

C15_Witness ==
    /\ op = "Questions.list"
    /\ args.page = "2"
    /\ query.params["page"] = "2"
    /\ result.kind = "return"
    /\ result.value.page = "2"

\* a paging field of an object response is present and truthy
Signals(body, key) ==
    /\ key \in DOMAIN body.dict
    /\ body.dict[key] \notin {JNull, JBool(FALSE), JStr("")}

\* C19: has_more of a list result is true for a bare page iff the page holds at
\* least 20 raw records, and for an object iff its next or has_more is truthy,
\* whatever the cutoff keeps.
C19_HasMore ==
    (op \in ListOps /\ result.kind = "return")
        => /\ data.t = "list"
                => (result.value.has_more <=> Len(data.list) >= DefaultPageSize)
           /\ data.t = "dict"
                => (result.value.has_more <=> (Signals(data, "next") \/ Signals(data, "has_more")))

\* a full page of which the cutoff keeps nothing still reports more
C19_Witness ==
    /\ op = "PredictionSets.list"
    /\ data.t = "list"
    /\ Len(data.list) = DefaultPageSize
    /\ result.kind = "return"
    /\ result.value.prediction_sets = <<>>
    /\ result.value.has_more

\* the query parameters the API documents for the resource of the call o
DocumentedParams(o) ==
    IF o \in {"Questions.list", "AsyncQuestions.list"}
    THEN {"status", "tags", "challenges", "sort", "filter", "ids", "page", "created_before",
          "created_after", "updated_before", "updated_after", "include_tag_ids"}
    ELSE IF o \in {"PredictionSets.list", "AsyncPredictionSets.list"}
    THEN {"question_id", "membership_id", "filter", "page", "created_before",
          "created_after", "updated_before", "updated_after"}
    ELSE {"commentable_id", "commentable_type", "page", "created_before", "created_after"}

\* C20: every key of the query of a list call is a documented parameter with a
\* non-null value the caller passed; created_before is the caller's value or the
\* bound derived from the effective cutoff.
C20_QueryShape ==
    op \in ListOps
        => \A k \in DOMAIN query.params :
              /\ k \in DocumentedParams(op)
              /\ query.params[k] # None
              /\ k = "page" => query.params[k] = args.page
              /\ k = "created_before"
                    => IF args.created_before # None
                       THEN query.params[k] = args.created_before
                       ELSE /\ EffectiveCutoff # None
                            /\ query.params[k] = EffectiveCutoff \o "T23:59:59"
              /\ k \notin {"page", "created_before"}
                    => k \in DOMAIN args.filters /\ query.params[k] = args.filters[k]

\* what the filter of the call o returns for the entities and the cutoff
Filter(o, entities, cutoff_date) ==
    CASE o = "_filter_questions_by_cutoff" -> _filter_questions_by_cutoff(entities, cutoff_date)
      [] o = "_filter_prediction_sets_by_cutoff"
            -> _filter_prediction_sets_by_cutoff(entities, cutoff_date)
      [] o = "_filter_comments_by_cutoff" -> _filter_comments_by_cutoff(entities, cutoff_date)

\* C16: filtering the output of a temporal filter again with the same valid
\* cutoff gives the same sequence.
C16_Idempotence ==
    (op \in FilterOps /\ result.kind = "return")
        => Filter(op, result.value, args.cutoff_date) = result

\* a filter that dropped one of two entities, applied again, drops nothing more
C16_Witness ==
    /\ op = "_filter_comments_by_cutoff"
    /\ result.kind = "return"
    /\ Len(args.entities) = 2
    /\ Len(result.value) = 1
    /\ Filter(op, result.value, args.cutoff_date).value = result.value

\* how many times e occurs in the sequence s
Occurrences(s, e) == Cardinality({i \in DOMAIN s : s[i] = e})

\* sub is s with some positions left out: its elements are elements of s taken
\* at increasing positions
IsSubsequence(sub, s) ==
    \E f \in [1..Len(sub) -> 1..Len(s)] :
        /\ \A i \in 1..Len(sub) : s[f[i]] = sub[i]
        /\ \A i, j \in 1..Len(sub) : i < j => f[i] < f[j]

\* C17: the output of a temporal filter is a subsequence of its input: nothing
\* new, the original order, and a kept entity as many times as it occurs.
C17_StableSubsequence ==
    (op \in FilterOps /\ result.kind = "return")
        => /\ IsSubsequence(result.value, args.entities)
           /\ \A e \in Range(result.value) :
                 Occurrences(result.value, e) = Occurrences(args.entities, e)

\* an entity occurring twice is kept twice
C17_Witness ==
    /\ op = "_filter_prediction_sets_by_cutoff"
    /\ result.kind = "return"
    /\ Len(args.entities) = 2
    /\ args.entities[1] = args.entities[2]
    /\ args.entities[1].created_at # NoneDT
    /\ result.value = args.entities

\* the place of a date in the calendar
DayOf(c) == CHOOSE d \in 1..Len(Calendar) : Calendar[d] = c

\* C18: what a temporal filter keeps under a cutoff c1, it keeps under every
\* cutoff c2 >= c1, so the older cutoff never returns more entities.
C18_MonotoneInCutoff ==
    (op \in FilterOps /\ result.kind = "return")
        => \A c2 \in Dates :
              DayOf(args.cutoff_date) <= DayOf(c2)
                => LET later == Filter(op, args.entities, c2)
                   IN  /\ later.kind = "return"
                       /\ IsSubsequence(result.value, later.value)
                       /\ Len(result.value) <= Len(later.value)

\* an entity dropped under the first day is kept under the last
C18_Witness ==
    /\ op = "_filter_prediction_sets_by_cutoff"
    /\ args.cutoff_date = Calendar[1]
    /\ result.kind = "return"
    /\ \E e \in Range(args.entities) :
          /\ e \notin Range(result.value)
          /\ e \in Range(Filter(op, args.entities, Calendar[MaxDay]).value)

----------------------------------------------------------------------------
(* The transport and its failures *)

HandlerOps == ListOps \cup GetOps

\* the last call made a post and the service answered it through the enclave
ServiceAnswered ==
    /\ op \in HandlerOps
    /\ http[1].kind = "enclave"
    /\ http[1].status = 200
    /\ http[1].parsed

\* the class the specification names for an HTTP status of 400 or more
StatusError(status) ==
    CASE status = 400 -> "BadRequestError"
      [] status = 401 -> "AuthenticationError"
      [] status = 403 -> "PermissionDeniedError"
      [] status = 404 -> "NotFoundError"
      [] status = 409 -> "ConflictError"
      [] status = 429 -> "RateLimitError"
      [] status >= 500 -> "InternalServerError"
      [] OTHER -> "APIStatusError"

\* the class the specification names for a dispatch error code
DispatchError(code) ==
    CASE code = "RATE_LIMITED" -> "RateLimitError"
      [] code = "AUTH_FAILED" -> "AuthenticationError"
      [] code = "DOWNSTREAM_TIMEOUT" -> "APITimeoutError"
      [] code \in {"DOWNSTREAM_UNREACHABLE", "ENCLAVE_UNAVAILABLE"} -> "APIConnectionError"
      [] OTHER -> "SDKError"

\* C21: a call whose response has an HTTP status of 400 or more never returns:
\* it raises the error class of the status (400 BadRequestError, 401
\* AuthenticationError, 403 PermissionDeniedError, 404 NotFoundError, 409
\* ConflictError, 429 RateLimitError, 500 and above InternalServerError, any
\* other status the generic status error)
C21_HttpStatusErrors ==
    (ServiceAnswered /\ http[1].success /\ http[1].response.status >= 400)
        => result = Raise(StatusError(http[1].response.status))

\* C22: a call whose dispatch failed raises the error class of the failure code:
\* RateLimitError for RATE_LIMITED, AuthenticationError for AUTH_FAILED,
\* APITimeoutError for DOWNSTREAM_TIMEOUT, APIConnectionError for
\* DOWNSTREAM_UNREACHABLE and ENCLAVE_UNAVAILABLE, SDKError for SERVICE_NOT_FOUND
\* and every other code
C22_DispatchErrors ==
    (ServiceAnswered /\ ~http[1].success) => result = Raise(DispatchError(http[1].code))

AsyncOps == {"AsyncQuestions.list", "AsyncQuestions.get", "AsyncPredictionSets.list",
             "AsyncComments.list"}

\* what the transport call of operation o yields when its posts are answered by network
Transport(o, network) ==
    IF o \in AsyncOps THEN AsyncBaseClient_get(network) ELSE BaseClient_get(network)

\* the raw records the last call had to decode
ToDecode == IF op \in GetOps THEN <<data>> ELSE RawRecords(op, data)
Undecodable(raw) == "id" \notin DOMAIN raw

\* C23: no failure is swallowed: when the transport call of a list or get call
\* raises, the call raises that same error, and when one record of the response
\* does not decode the call raises the decode error, whatever the other
\* records are; neither yields a result
C23_NoSwallowedFailures ==
    op \in HandlerOps =>
        /\ Transport(op, http).kind = "raise" => result = Transport(op, http)
        /\ (Transport(op, http).kind = "return"
                /\ \E i \in DOMAIN ToDecode : Undecodable(ToDecode[i]))
            => result = Raise(ValidationError.error)

\* a list call whose page holds a record that decodes and one that does not
C23_Witness ==
    /\ op = "Questions.list"
    /\ Transport(op, http).kind = "return"
    /\ Len(ToDecode) = 2
    /\ ~Undecodable(ToDecode[1])
    /\ Undecodable(ToDecode[2])
    /\ result.kind = "raise"

ClientOps == {"Client", "AsyncClient"}

\* the variables of the enclave configuration that environ leaves unset or empty
Missing(environ) ==
    {v \in {"ENCLAVE_URL", "MIDDLEWARE_AUTH_SECRET"} : environ[v] \in {None, ""}}

\* C24: constructing Client or AsyncClient with ENCLAVE_URL or
\* MIDDLEWARE_AUTH_SECRET unset or empty raises an error that names a missing
\* variable; no client is returned and no httpx client is created
C24_MissingConfiguration ==
    (op \in ClientOps /\ Missing(args) # {})
        => /\ result.kind = "raise"
           /\ \E v \in Missing(args) :
                 result.exc = "RuntimeError: " \o v \o " environment variable is required."
           /\ http = <<>>

\* AsyncClient() with the URL set and the secret empty
C24_Witness ==
    /\ op = "AsyncClient"
    /\ args.ENCLAVE_URL = "https://enclave"
    /\ args.MIDDLEWARE_AUTH_SECRET = ""
    /\ result.kind = "raise"

\* the query a call sends
Sent(path, params) == [path |-> path, params |-> params]

\* C25: the synchronous and the asynchronous variant of an operation agree: for
\* the same arguments, override and answers of the transport, each sends the
\* query the other would send and yields the result or error the other would
C25_SyncAsyncEquivalence ==
    /\ op = "Questions.list" =>
        /\ query = Sent("/api/v1/questions",
                        AsyncBaseClient_build_params(AsyncQuestions_list_params(args, today)))
        /\ result = AsyncQuestions_list(args, today, http)
    /\ op = "AsyncQuestions.list" =>
        /\ query = Sent("/api/v1/questions",
                        BaseClient_build_params(Questions_list_params(args, today)))
        /\ result = Questions_list(args, today, http)
    /\ op = "Questions.get" =>
        /\ query = Sent(AsyncQuestions_get_path(args), AsyncBaseClient_build_params(NoParams))
        /\ result = AsyncQuestions_get(args, today, http)
    /\ op = "AsyncQuestions.get" =>
        /\ query = Sent(Questions_get_path(args), BaseClient_build_params(NoParams))
        /\ result = Questions_get(args, today, http)
    /\ op = "PredictionSets.list" =>
        /\ query = Sent("/api/v1/prediction_sets",
                        AsyncBaseClient_build_params(AsyncPredictionSets_list_params(args, env)))
        /\ result = AsyncPredictionSets_list(args, env, http)
    /\ op = "AsyncPredictionSets.list" =>
        /\ query = Sent("/api/v1/prediction_sets",
                        BaseClient_build_params(PredictionSets_list_params(args, env)))
        /\ result = PredictionSets_list(args, env, http)
    /\ op = "Comments.list" =>
        /\ query = Sent("/api/v1/comments",
                        AsyncBaseClient_build_params(AsyncComments_list_params(args, today)))
        /\ result = AsyncComments_list(args, today, http)
    /\ op = "AsyncComments.list" =>
        /\ query = Sent("/api/v1/comments",
                        BaseClient_build_params(Comments_list_params(args, today)))
        /\ result = Comments_list(args, today, http)

\* a synchronous call whose post timed out
C25_Witness ==
    /\ op = "PredictionSets.list"
    /\ http = <<TimeoutException>>
    /\ result = Raise("APITimeoutError")

\* C27: no automatic retry: a list or get call makes exactly one post, and a
\* call whose post failed or was answered with an error made no second one
C27_NoRetry ==
    op \in HandlerOps =>
        Len(http) = 1

\* a call whose only post could not connect, and that failed
C27_Witness ==
    /\ op \in HandlerOps
    /\ http = <<ConnectError>>
    /\ result.kind = "raise"

\* the value an object response carries its records in: that of the resource
\* key when the key is present, else that of results, else that of data
Chosen(o, body) ==
    IF ResourceKey(o) \in DOMAIN body.dict THEN body.dict[ResourceKey(o)]
    ELSE IF "results" \in DOMAIN body.dict THEN body.dict["results"]
    ELSE IF "data" \in DOMAIN body.dict THEN body.dict["data"]
    ELSE JList(<<>>)

\* the records of a response, by the precedence of the keys; none when the chosen
\* value is not a list or the response is neither a list nor an object
ChosenRecords(o, body) ==
    IF body.t = "list" THEN body
    ELSE IF body.t = "dict" /\ Chosen(o, body).t = "list" THEN Chosen(o, body)
    ELSE JList(<<>>)

\* the last call was a list call whose transport returned a body
ListAnswered == op \in ListOps /\ Transport(op, http).kind = "return"

\* the last call yields what the call answered with the bare page would, paging aside
AsBarePage(page) ==
    LET bare == ListReturn(op, args, page)
    IN  IF bare.kind = "raise" THEN result = bare
        ELSE result.kind = "return" /\ Items(result.value) = Items(bare.value)

\* C29 as stated: the records of an object response are those under the resource
\* key when it is present, else under results, else under data; when the chosen
\* value is not a list, or the response is neither a list nor an object, the
\* call returns an empty entity sequence and does not raise
C29_EnvelopeKeyPrecedence ==
    ListAnswered =>
        /\ AsBarePage(ChosenRecords(op, data))
        /\ (data.t # "list" /\ ChosenRecords(op, data).list = <<>>)
            => result.kind = "return" /\ Items(result.value) = <<>>

\* C29 amended: the call yields the entities, or the failure, of the call
\* answered with the bare list of the chosen records, where a chosen value that
\* is not a list, and a response that is neither a list nor an object, count as
\* the empty list
C29_EnvelopeAsBarePage == ListAnswered => AsBarePage(ChosenRecords(op, data))

\* an object with records under all three keys: those of the resource key are returned
C29_Witness ==
    /\ op = "Comments.list"
    /\ ListAnswered
    /\ data.t = "dict"
    /\ DOMAIN data.dict = {"comments", "results", "data"}
    /\ data.dict["results"].t = "list"
    /\ Len(data.dict["results"].list) = 1
    /\ result.kind = "return"
    /\ Len(Items(result.value)) = 1
    /\ Items(result.value)[1].id = 1

\* C30: the override is read-only: no resolve, list or get call, returning or
\* failing, and no construction of a client changes CUTOFF_DATE, and resolving
\* the cutoff makes no request and leaves the import date alone
C30_OverrideReadOnly ==
    [][/\ env' = env
       /\ op' = "_resolve_cutoff_date" => http' = http /\ today' = today]_vars

\* the resolver fell back to the parameter because the override is unset
C30_Witness ==
    /\ op = "_resolve_cutoff_date"
    /\ env = None
    /\ args.cutoff_date \in Dates
    /\ result = Return(args.cutoff_date)

----------------------------------------------------------------------------
(* Callers sharing a client *)

\* C26: with the override fixed, whatever the other callers of the client do
\* meanwhile, a call sends the query and yields the result or error it would
\* running alone with its own arguments and its own answer
C26_ConcurrencySafety ==
    \A c \in Callers :
        (calls[c].pc # "idle" /\ ~calls[c].moved) =>
            /\ calls[c].query = Call_query(calls[c].op, calls[c].args, env, today)
            /\ calls[c].pc = "done" =>
                 calls[c].result = Call_return(calls[c].op, calls[c].args, env, today,
                                               <<calls[c].post>>)

\* a call that finished with a page while another call, of another resource and
\* with another cutoff, is in flight
C26_Witness ==
    /\ calls[1].pc = "done"
    /\ calls[2].pc = "sent"
    /\ ~calls[1].moved
    /\ calls[1].op = "AsyncPredictionSets.list"
    /\ calls[2].op = "AsyncQuestions.list"
    /\ calls[1].args # calls[2].args
    /\ calls[1].result.kind = "return"

\* C28: a list call resolves its cutoff once, before the transport call: the
\* bound it sends and the filter it applies to the answer are those of the
\* override as it was when the call began, also when the override was changed
\* while the post was in flight
C28_SingleResolution ==
    \A c \in Callers :
        (calls[c].pc = "done" /\ calls[c].op \in ListOps) =>
            /\ calls[c].query = Call_query(calls[c].op, calls[c].args, calls[c].environ, today)
            /\ calls[c].result = Call_return(calls[c].op, calls[c].args, calls[c].environ,
                                             today, <<calls[c].post>>)

\* a call that began under the override of the first day, finished after the
\* override was unset, and kept only the record of the first day
C28_Witness ==
    \E c \in Callers :
        /\ calls[c].pc = "done"
        /\ calls[c].op = "PredictionSets.list"
        /\ calls[c].moved
        /\ calls[c].environ = Calendar[1]
        /\ env = None
        /\ calls[c].result.kind = "return"
        /\ Len(Items(calls[c].result.value)) = 1

====
